---- MODULE Spec2Model ----
(***************************************************************************)
(* Model of the dish-field extractor (extract_dish_name), the dish-name    *)
(* normaliser (clean_dish_name) and the recipe resolver                    *)
(* (search_recipe_smart) of app/cloud_app.py and app/main.py.              *)
(*                                                                         *)
(* A Python str is a sequence of characters; a character is a one-element  *)
(* string, except "ndash" which stands for U+2013 (EN DASH).               *)
(***************************************************************************)
EXTENDS Integers, Sequences, FiniteSets, TLC

VARIABLES
  pc,         \* position of the running function
  response,   \* extract_dish_name: the language-model text
  dishes,     \* extract_dish_name: the dict {"main", "drink", "snack"}
  dish_name,  \* clean_dish_name / search_recipe_smart: the argument
  cleaned,    \* clean_dish_name(dish_name)
  words,      \* search_recipe_smart: the local list `words`
  queries,    \* the calls of search_recipe made so far, in order
  recipe,     \* search_recipe_smart: the value returned (None or a record)
  outcome,    \* how the latest external call ended, and in which function
  variant,    \* the app that runs: "cloud_app" or "main"
  genre_map,  \* the module-level genre_map
  movie_query,   \* st.text_input: the search query
  search_button, \* st.button: pressed in this run of the script
  movies,     \* the result of the movie search
  tab,        \* the index i of `for i, tab in enumerate(tabs)`, from 1
  rendered,   \* what the current tab has put on the page, in order
  raised      \* the exception that left the script, or NoException

\* the variables of the page script
page == <<variant, genre_map, movie_query, search_button, movies, tab,
          rendered, raised>>

vars == <<pc, response, dishes, dish_name, cleaned, words, queries, recipe,
          outcome, page>>

----------------------------------------------------------------------------
(* Characters and the character classes of Python's re module.            *)

UpperLetters ==
  <<"A","B","C","D","E","F","G","H","I","J","K","L","M",
    "N","O","P","Q","R","S","T","U","V","W","X","Y","Z">>

LowerLetters ==
  <<"a","b","c","d","e","f","g","h","i","j","k","l","m",
    "n","o","p","q","r","s","t","u","v","w","x","y","z">>

UpperSet == {UpperLetters[i] : i \in 1..26}

LowerSet == {LowerLetters[i] : i \in 1..26}

DigitSet == {"0","1","2","3","4","5","6","7","8","9"}

\* \s
IsSpace(c) == c \in {" ", "\n", "\t"}

\* \w
IsWordChar(c) == c \in UpperSet \/ c \in LowerSet \/ c \in DigitSet \/ c = "_"

\* str.lower() on one character
LowerOf == [c \in UpperSet |-> LowerLetters[CHOOSE i \in 1..26 : UpperLetters[i] = c]]

lower(s) == [i \in 1..Len(s) |-> IF s[i] \in UpperSet THEN LowerOf[s[i]] ELSE s[i]]

Min(S) == CHOOSE x \in S : \A y \in S : x <= y

Max(S) == CHOOSE x \in S : \A y \in S : x >= y

----------------------------------------------------------------------------
(* Python str methods.                                                     *)

\* s[i:].startswith(pat), i counted from 1
StartsWithAt(s, i, pat) ==
  /\ i >= 1
  /\ i + Len(pat) - 1 <= Len(s)
  /\ \A k \in 1..Len(pat) : s[i + k - 1] = pat[k]

\* s.find(pat, i), counted from 1; 0 when pat does not occur from i on
RECURSIVE find_from(_, _, _)
find_from(s, pat, i) ==
  IF i + Len(pat) - 1 > Len(s) THEN 0
  ELSE IF StartsWithAt(s, i, pat) THEN i
  ELSE find_from(s, pat, i + 1)

\* s.find(pat)
find(s, pat) == find_from(s, pat, 1)

\* pat in s
contains(s, pat) == find(s, pat) # 0

\* s.strip()
strip(s) ==
  LET I == {i \in 1..Len(s) : ~IsSpace(s[i])}
  IN  IF I = {} THEN <<>> ELSE SubSeq(s, Min(I), Max(I))

\* s.strip(ch)
strip_char(s, ch) ==
  LET I == {i \in 1..Len(s) : s[i] # ch}
  IN  IF I = {} THEN <<>> ELSE SubSeq(s, Min(I), Max(I))

\* s.replace(old, new)
RECURSIVE str_replace(_, _, _)
str_replace(s, old, new) ==
  LET i == find(s, old)
  IN  IF i = 0 THEN s
      ELSE SubSeq(s, 1, i - 1) \o new
             \o str_replace(SubSeq(s, i + Len(old), Len(s)), old, new)

\* s.split(sep): the list of pieces
RECURSIVE split(_, _)
split(s, sep) ==
  LET i == find(s, sep)
  IN  IF i = 0 THEN <<s>>
      ELSE <<SubSeq(s, 1, i - 1)>> \o split(SubSeq(s, i + Len(sep), Len(s)), sep)

\* s.split(sep)[-1]
split_last(s, sep) == LET p == split(s, sep) IN p[Len(p)]

\* s.split(sep)[0]
split_first(s, sep) == split(s, sep)[1]

\* the character class without its hyphen
KeepChar_NoHyphen(c) == IsWordChar(c) \/ IsSpace(c) \/ c = "'"

\* re.sub(r'[^\w\s\'-]', '', s)
KeepChar(c) == IsWordChar(c) \/ IsSpace(c) \/ c = "'" \/ c = "-"

sub_nonword(s) == SelectSeq(s, KeepChar)

\* re.sub(r'\s+', ' ', s)
RECURSIVE sub_spaces(_)
sub_spaces(s) ==
  IF s = <<>> THEN <<>>
  ELSE IF IsSpace(s[1])
       THEN LET N == {i \in 1..Len(s) : ~IsSpace(s[i])}
            IN  IF N = {} THEN <<" ">>
                ELSE <<" ">> \o sub_spaces(SubSeq(s, Min(N), Len(s)))
       ELSE <<s[1]>> \o sub_spaces(Tail(s))

\* s.split(): the whitespace-separated words
RECURSIVE split_words(_)
split_words(s) ==
  LET t == strip(s)
  IN  IF t = <<>> THEN <<>>
      ELSE LET W == {i \in 1..Len(t) : IsSpace(t[i])}
           IN  IF W = {} THEN <<t>>
               ELSE <<SubSeq(t, 1, Min(W) - 1)>>
                      \o split_words(SubSeq(t, Min(W), Len(t)))

\* " ".join(ws)
RECURSIVE join(_)
join(ws) ==
  IF ws = <<>> THEN <<>>
  ELSE IF Len(ws) = 1 THEN ws[1]
  ELSE ws[1] \o <<" ">> \o join(Tail(ws))

----------------------------------------------------------------------------
(* re.search(LABEL ':' \s* (.+?) (?: \s*STOP1: | \s*STOP2: | \n | $ ), s)  *)

NoMatch == [found |-> FALSE, group |-> <<>>]

\* the number of whitespace characters from position j on
RECURSIVE WsRun(_, _)
WsRun(s, j) ==
  IF j > Len(s) THEN 0
  ELSE IF IsSpace(s[j]) THEN 1 + WsRun(s, j + 1)
  ELSE 0

\* the pattern without the other labels as stop markers: (?:\n|$)
Terminator_NoStops(s, e, stops) ==
  \/ (e <= Len(s) /\ s[e] = "\n")
  \/ e = Len(s) + 1

\* (?:\s*STOP1|\s*STOP2|\n|$) matches at position e
Terminator(s, e, stops) ==
  \/ \E n \in 1..Len(stops) : \E m \in 0..WsRun(s, e) :
        StartsWithAt(s, e + m, stops[n])
  \/ (e <= Len(s) /\ s[e] = "\n")
  \/ e = Len(s) + 1
  \/ (e = Len(s) /\ s[e] = "\n")

\* (.+?) grown one character at a time from position e - 1 on: the least
\* end (exclusive) at which the terminator matches; 0 when there is none
RECURSIVE LazyEnd(_, _, _)
LazyEnd(s, e, stops) ==
  IF Terminator(s, e, stops) THEN e
  ELSE IF e > Len(s) \/ s[e] = "\n" THEN 0
  ELSE LazyEnd(s, e + 1, stops)

\* (.+?) from position s0: at least one character, none a line break
GroupEnd(s, s0, stops) ==
  IF s0 > Len(s) \/ s[s0] = "\n" THEN 0 ELSE LazyEnd(s, s0 + 1, stops)

\* \s* taking k characters from position j, then the group: k is tried
\* from the longest run down (greedy, giving characters back)
RECURSIVE MatchAfter(_, _, _, _)
MatchAfter(s, j, k, stops) ==
  LET e == GroupEnd(s, j + k, stops)
  IN  IF e # 0 THEN [found |-> TRUE, group |-> SubSeq(s, j + k, e - 1)]
      ELSE IF k = 0 THEN NoMatch
      ELSE MatchAfter(s, j, k - 1, stops)

\* the pattern tried at position p
MatchAt(s, p, label, stops) ==
  IF ~StartsWithAt(s, p, label) THEN NoMatch
  ELSE MatchAfter(s, p + Len(label), WsRun(s, p + Len(label)), stops)

\* the pattern tried at p, then at p + 1, ...: the leftmost match
RECURSIVE search_from(_, _, _, _)
search_from(s, p, label, stops) ==
  IF p > Len(s) THEN NoMatch
  ELSE LET m == MatchAt(s, p, label, stops)
       IN  IF m.found THEN m ELSE search_from(s, p + 1, label, stops)

re_search(s, label, stops) == search_from(s, 1, label, stops)

----------------------------------------------------------------------------
(* extract_dish_name                                                       *)

MAIN_DISH_US == <<"M","A","I","N","_","D","I","S","H",":">>

MAIN_DISH == <<"M","A","I","N"," ","D","I","S","H",":">>

DRINK == <<"D","R","I","N","K",":">>

SNACK == <<"S","N","A","C","K",":">>

Main_Dish == <<"M","a","i","n"," ","D","i","s","h">>

Drink == <<"D","r","i","n","k">>

Snack == <<"S","n","a","c","k">>

Colon == <<":">>

\* [" - ", " – ", ". ", ", a ", ", this ", ", an "]
separators ==
  << <<" ","-"," ">>,
     <<" ","ndash"," ">>,
     <<"."," ">>,
     <<","," ","a"," ">>,
     <<","," ","t","h","i","s"," ">>,
     <<","," ","a","n"," ">> >>

EmptyDishes == [main |-> <<>>, drink |-> <<>>, snack |-> <<>>]

\* the response left as it is
normalize_Nothing(r) == r

\* response.replace("MAIN_DISH:", "MAIN DISH:")
normalize(r) == str_replace(r, MAIN_DISH_US, MAIN_DISH)

\* the three re.search calls and the assignments that follow them
primary_pass(r) ==
  LET normalized  == normalize(r)
      main_match  == re_search(normalized, MAIN_DISH, <<DRINK, SNACK>>)
      drink_match == re_search(normalized, DRINK, <<SNACK, MAIN_DISH>>)
      snack_match == re_search(normalized, SNACK, <<MAIN_DISH, DRINK>>)
  IN  [main  |-> IF main_match.found THEN strip(main_match.group) ELSE <<>>,
       drink |-> IF drink_match.found THEN strip(drink_match.group) ELSE <<>>,
       snack |-> IF snack_match.found THEN strip(snack_match.group) ELSE <<>>]

\* raw without the cut at a separator
raw_of_line_NoCut(line) == strip(strip_char(strip(split_last(line, Colon)), "*"))

\* raw = line.split(":")[-1].strip().strip("*").strip(), cut at the first
\* separator of the list that occurs in raw
raw_of_line(line) ==
  LET raw == strip(strip_char(strip(split_last(line, Colon)), "*"))
      S   == {n \in 1..Len(separators) : contains(raw, separators[n])}
  IN  IF S = {} THEN raw
      ELSE strip(split_first(raw, separators[Min(S)]))

\* the scan without the test `":" in line`
RECURSIVE scan_lines_NoColon(_, _)
scan_lines_NoColon(d, lines) ==
  IF lines = <<>> THEN d
  ELSE LET line == strip(Head(lines))
           d2 == IF contains(line, Main_Dish)
                   THEN [d EXCEPT !.main = raw_of_line(line)]
                 ELSE IF contains(line, Drink) /\ d.drink = <<>>
                   THEN [d EXCEPT !.drink = raw_of_line(line)]
                 ELSE IF contains(line, Snack) /\ d.snack = <<>>
                   THEN [d EXCEPT !.snack = raw_of_line(line)]
                 ELSE d
       IN  scan_lines_NoColon(d2, Tail(lines))

\* the scan with the labels looked for in any casing
RECURSIVE scan_lines_AnyCase(_, _)
scan_lines_AnyCase(d, lines) ==
  IF lines = <<>> THEN d
  ELSE LET line == strip(Head(lines))
           d2 == IF contains(lower(line), lower(Main_Dish)) /\ contains(line, Colon)
                   THEN [d EXCEPT !.main = raw_of_line(line)]
                 ELSE IF contains(lower(line), lower(Drink)) /\ contains(line, Colon)
                         /\ d.drink = <<>>
                   THEN [d EXCEPT !.drink = raw_of_line(line)]
                 ELSE IF contains(lower(line), lower(Snack)) /\ contains(line, Colon)
                         /\ d.snack = <<>>
                   THEN [d EXCEPT !.snack = raw_of_line(line)]
                 ELSE d
       IN  scan_lines_AnyCase(d2, Tail(lines))

\* the body of `for line in response.split("\n")`, over the lines left
RECURSIVE scan_lines(_, _)
scan_lines(d, lines) ==
  IF lines = <<>> THEN d
  ELSE LET line == strip(Head(lines))
           d2 == IF contains(line, Main_Dish) /\ contains(line, Colon)
                   THEN [d EXCEPT !.main = raw_of_line(line)]
                 ELSE IF contains(line, Drink) /\ contains(line, Colon)
                         /\ d.drink = <<>>
                   THEN [d EXCEPT !.drink = raw_of_line(line)]
                 ELSE IF contains(line, Snack) /\ contains(line, Colon)
                         /\ d.snack = <<>>
                   THEN [d EXCEPT !.snack = raw_of_line(line)]
                 ELSE d
       IN  scan_lines(d2, Tail(lines))

\* the scan made whatever the primary pass found
fallback_pass_Always(d, r) == scan_lines(d, split(r, <<"\n">>))

\* `if not dishes["main"]: for line in response.split("\n"): ...`
fallback_pass(d, r) ==
  IF d.main = <<>> THEN scan_lines(d, split(r, <<"\n">>)) ELSE d

\* the post-processing without the removal of characters
clean_field_SpacesOnly(v) == strip(sub_spaces(strip(v)))

\* re.sub(r'[^\w\s\'-]', '', v).strip(), then re.sub(r'\s+', ' ', .).strip()
clean_field(v) == strip(sub_spaces(strip(sub_nonword(v))))

\* the fields that are empty left out of the result
clean_fields_DropEmpty(d) ==
  [k \in {f \in DOMAIN d : d[f] # <<>>} |-> clean_field(d[k])]

\* `for key in dishes: if dishes[key]: ...`
clean_fields(d) ==
  [k \in DOMAIN d |-> IF d[k] # <<>> THEN clean_field(d[k]) ELSE d[k]]

extract_dish_name(r) == clean_fields(fallback_pass(primary_pass(r), r))

----------------------------------------------------------------------------
(* clean_dish_name                                                         *)

flair_words ==
  << <<"s","e","d","u","c","t","i","o","n">>,
     <<"r","o","m","a","n","t","i","c">>,
     <<"p","a","s","s","i","o","n","a","t","e">>,
     <<"c","o","z","y">>,
     <<"s","p","o","o","k","y">>,
     <<"d","r","e","a","m","y">>,
     <<"m","a","g","i","c","a","l">>,
     <<"e","n","c","h","a","n","t","e","d">>,
     <<"u","l","t","i","m","a","t","e">>,
     <<"p","e","r","f","e","c","t">>,
     <<"d","a","t","e"," ","n","i","g","h","t">>,
     <<"l","o","v","e">>,
     <<"s","p","e","c","i","a","l">>,
     <<"d","e","l","i","c","i","o","u","s">>,
     <<"h","o","m","e","m","a","d","e">>,
     <<"g","o","u","r","m","e","t">>,
     <<"c","l","a","s","s","i","c">>,
     <<"a","u","t","h","e","n","t","i","c">>,
     <<"t","r","a","d","i","t","i","o","n","a","l">>,
     <<"f","a","m","o","u","s">>,
     <<"e","p","i","c">>,
     <<"h","e","a","v","e","n","l","y">>,
     <<"d","i","v","i","n","e">>,
     <<"s","i","n","f","u","l">>,
     <<"d","e","c","a","d","e","n","t">>,
     <<"l","u","s","t","y">>,
     <<"f","i","e","r","y">>,
     <<"s","i","z","z","l","i","n","g">>,
     <<"s","t","e","a","m","y">>,
     <<"m","i","d","n","i","g","h","t">>,
     <<"m","o","o","n","l","i","t">>,
     <<"c","a","n","d","l","e","l","i","t">>,
     <<"s","u","l","t","r","y">>,
     <<"s","e","n","s","u","a","l">>,
     <<"f","o","r","b","i","d","d","e","n">>,
     <<"i","r","r","e","s","i","s","t","i","b","l","e">>,
     <<"t","e","m","p","t","i","n","g">>,
     <<"i","n","d","u","l","g","e","n","t">>,
     <<"l","u","x","u","r","i","o","u","s">> >>

\* w.lower().strip() not in flair_words
not_flair(w) == \A n \in 1..Len(flair_words) : strip(lower(w)) # flair_words[n]

\* the flair words looked for before the punctuation is removed
clean_dish_name_FlairFirst(name) ==
  LET cleaned_words == SelectSeq(split_words(name), not_flair)
  IN  strip(sub_spaces(strip(sub_nonword(join(cleaned_words)))))

clean_dish_name(name) ==
  LET no_emoji      == sub_nonword(name)
      cleaned_words == SelectSeq(split_words(no_emoji), not_flair)
  IN  strip(sub_spaces(strip(join(cleaned_words))))

----------------------------------------------------------------------------
(* search_recipe and search_recipe_smart                                   *)

None == [kind |-> "None"]

\* no external call made yet
NoCall == [site |-> "none", kind |-> "none"]

NoException == [kind |-> "none"]

\* an empty dict
EmptyMap == <<>>

\* the page script not running: one of the functions is called on its own
PageIdle ==
  /\ variant = "cloud_app"
  /\ genre_map = EmptyMap
  /\ movie_query = <<>>
  /\ search_button = FALSE
  /\ movies = <<>>
  /\ tab = 0
  /\ rendered = <<>>
  /\ raised = NoException

\* what the HTTP call of search_recipe can end in
Outcomes == {"meal", "no_meals", "bad_json", "network_error"}

\* search_recipe without its try/except: an exception leaves the function
search_recipe_Propagates(q, o) ==
  IF o = "meal" THEN [kind |-> "meal", name |-> q]
  ELSE IF o = "no_meals" THEN None
  ELSE [kind |-> "exception", name |-> o]

\* search_recipe(q) when the call ends in outcome o: the first meal of the
\* answer, or None for an empty answer and for every exception
search_recipe(q, o) == IF o = "meal" THEN [kind |-> "meal", name |-> q] ELSE None

\* a test that no record passes
Truthy_Never(r) == FALSE

\* `if recipe:`
Truthy(r) == r # None

\* a sort that puts the last of the words of equal length first
RECURSIVE sort_by_len_LastFirst(_)
sort_by_len_LastFirst(ws) ==
  IF ws = <<>> THEN <<>>
  ELSE LET m == Max({Len(ws[i]) : i \in 1..Len(ws)})
           i == Max({k \in 1..Len(ws) : Len(ws[k]) = m})
       IN  <<ws[i]>> \o sort_by_len_LastFirst(SubSeq(ws, 1, i - 1) \o SubSeq(ws, i + 1, Len(ws)))

\* words.sort(key=len, reverse=True): stable, longest first
RECURSIVE sort_by_len(_)
sort_by_len(ws) ==
  IF ws = <<>> THEN <<>>
  ELSE LET m == Max({Len(ws[i]) : i \in 1..Len(ws)})
           i == Min({k \in 1..Len(ws) : Len(ws[k]) = m})
       IN  <<ws[i]>> \o sort_by_len(SubSeq(ws, 1, i - 1) \o SubSeq(ws, i + 1, Len(ws)))

\* the test `len(word) > 2` in place of `len(word) > 3`
RECURSIVE skip_short_Two(_)
skip_short_Two(ws) ==
  IF ws = <<>> THEN <<>>
  ELSE IF Len(Head(ws)) > 2 THEN ws ELSE skip_short_Two(Tail(ws))

\* the words of the for loop that are skipped: `if len(word) > 3` fails
RECURSIVE skip_short(_)
skip_short(ws) ==
  IF ws = <<>> THEN <<>>
  ELSE IF Len(Head(ws)) > 3 THEN ws ELSE skip_short(Tail(ws))

\* the list the for loop of step 3 runs over, short words at its head skipped
word_list(c) == skip_short(sort_by_len(split_words(c)))

----------------------------------------------------------------------------
(* The inputs: responses of the language model, dish names.                *)

\* the greatest number of segments of a mixed response
MaxSegs == 3

\* the greatest number of words of a dish name handed to the resolver
MaxWords == 3

\* the greatest number of tokens of a dish name handed to clean_dish_name
MaxTokens == 3

\* sequences of 0..n elements of S
SeqsUpTo(S, n) == UNION {[1..k -> S] : k \in 0..n}

\* the elements of ss, with j between each two
RECURSIVE concat(_, _)
concat(ss, j) ==
  IF ss = <<>> THEN <<>>
  ELSE IF Len(ss) = 1 THEN ss[1]
  ELSE ss[1] \o j \o concat(Tail(ss), j)

\* dish strings: non-empty, one line, no surrounding whitespace, no label
DishStrings ==
  { <<"T","a","c","o","s">>,
    <<"M","a","c"," ","&"," ","C","h","e","e","s","e">>,
    <<"a","_","b">>,
    <<"S","t","i","r","-","f","r","y">>,
    <<"J","o","e","'","s"," "," ","P","i","e">> }

\* the labels of main, drink and snack, in three ways of writing them
LabelStyles ==
  { <<<<"M","A","I","N"," ","D","I","S","H",":">>, <<"D","R","I","N","K",":">>, <<"S","N","A","C","K",":">>>>,
    <<<<"M","A","I","N","_","D","I","S","H",":">>, <<"D","R","I","N","K",":">>, <<"S","N","A","C","K",":">>>>,
    <<<<"m","a","i","n"," ","d","i","s","h",":">>, <<"D","r","i","n","k",":">>, <<"s","N","a","C","k",":">>>> }

Joiners == {<<"\n">>, <<" ">>}

\* 'L1 A', 'L2 B', 'L3 C', joined by j
Labelled(st, a, b, c, j) ==
  concat(<<st[1] \o <<" ">> \o a, st[2] \o <<" ">> \o b, st[3] \o <<" ">> \o c>>, j)

\* on three lines or on one
LabelledResponses ==
  { Labelled(st, a, b, c, j) :
      st \in LabelStyles, a \in DishStrings, b \in DishStrings,
      c \in DishStrings, j \in Joiners }

MarkdownMain == <<"*","*","M","a","i","n"," ","D","i","s","h","*","*",":"," ">>

MarkdownNames ==
  { <<"T","a","c","o","s">>,
    <<"S","p","i","c","y"," ","T","o","f","u"," ","S","t","i","r","-","f","r","y">>,
    <<"M","a","c"," ","&"," ","C","h","e","e","s","e">> }

Clauses ==
  { <<"s","o"," ","g","o","o","d">>,
    <<"y","u","m",","," ","a"," ","t","r","e","a","t">>,
    <<"n","o","t","e",":"," ","g","o","o","d">>,
    <<"h","o","t"," ","-"," ","r","e","a","l","l","y">> }

\* '**Main Dish**: <name>', alone or followed by a separator and a clause
MarkdownResponses ==
  { MarkdownMain \o n : n \in MarkdownNames }
  \cup { MarkdownMain \o n \o separators[k] \o c :
           n \in MarkdownNames, k \in 1..Len(separators), c \in Clauses }

\* pieces of a response in no particular format
Segments ==
  { <<"M","A","I","N"," ","D","I","S","H",":"," ","T","a","c","o","s">>,
    <<"M","A","I","N","_","D","I","S","H",":"," ","a","_","b">>,
    <<"M","A","I","N"," ","D","I","S","H",":">>,
    <<"D","R","I","N","K",":"," ","T","e","a","!">>,
    <<"S","N","A","C","K",":"," "," ","M","a","c"," ","&"," ","C","h","e","e","s","e">>,
    <<"*","*","M","a","i","n"," ","D","i","s","h","*","*",":"," ","T","a","c","o","s"," ","-"," ","s","o"," ","g","o","o","d">>,
    <<"*","*","D","r","i","n","k","*","*",":"," ","C","h","a","i",","," ","a"," ","c","u","p">>,
    <<"J","u","s","t"," ","D","r","i","n","k"," ","i","t">>,
    <<"M","a","i","n"," ","D","i","s","h",":"," ","P","i","e">> }

\* up to MaxSegs segments on a line each, or one fewer on one line
MixedResponses ==
  { concat(ss, <<"\n">>) : ss \in SeqsUpTo(Segments, MaxSegs) }
  \cup { concat(ss, <<" ">>) : ss \in SeqsUpTo(Segments, MaxSegs - 1) }

Responses == LabelledResponses \cup MarkdownResponses \cup MixedResponses

\* the words dish names are made of
NameWords ==
  { <<"R","o","m","a","n","t","i","c">>,
    <<"S","e","a","r","e","d">>,
    <<"S","a","l","m","o","n">>,
    <<"R","e","d">>,
    <<"T","u","n","a">>,
    <<"S","p","a","g","h","e","t","t","i">>,
    <<"C","a","r","b","o","n","a","r","a">> }

DishNames == { join(ws) : ws \in SeqsUpTo(NameWords, MaxWords) }

\* str.upper()
UpperOf == [c \in LowerSet |-> UpperLetters[CHOOSE i \in 1..26 : LowerLetters[i] = c]]

upper(s) == [i \in 1..Len(s) |-> IF s[i] \in LowerSet THEN UpperOf[s[i]] ELSE s[i]]

\* str.title(): the first letter of every word in upper case
title(s) ==
  [i \in 1..Len(s) |->
     IF s[i] \in LowerSet /\ (i = 1 \/ IsSpace(s[i - 1])) THEN UpperOf[s[i]] ELSE s[i]]

Stew == <<"S","t","e","w">>

Hot == <<"H","o","t">>

\* every entry of the denylist, in three casings, alone and among other words
FlairNames ==
  UNION { { e, e \o <<" ">> \o Stew, Hot \o <<" ">> \o e \o <<" ">> \o Stew } :
            e \in UNION { { flair_words[n], upper(flair_words[n]), title(flair_words[n]) } :
                            n \in 1..Len(flair_words) } }

Tokens ==
  { <<"l","o","v","e">>,
    <<"L","o","v","e","b","i","r","d">>,
    <<"D","a","t","e">>,
    <<"N","i","g","h","t">>,
    <<"R","o","m","a","n","t","i","c",",">>,
    <<"l","o","!","v","e">>,
    <<"S","t","e","w">>,
    <<"E","P","I","C">> }

TokenNames == { join(ws) : ws \in SeqsUpTo(Tokens, MaxTokens) }

CleanNames == FlairNames \cup TokenNames

----------------------------------------------------------------------------
(* extract_dish_name, step by step.                                        *)

ExtractInit ==
  /\ pc = "extract"
  /\ response \in Responses
  /\ dishes = EmptyDishes
  /\ dish_name = <<>>
  /\ cleaned = <<>>
  /\ words = <<>>
  /\ queries = <<>>
  /\ recipe = None
  /\ outcome = NoCall
  /\ PageIdle

PrimaryPass ==
  /\ pc = "extract"
  /\ dishes' = primary_pass(response)
  /\ pc' = "primary"
  /\ UNCHANGED <<response, dish_name, cleaned, words, queries, recipe, outcome, page>>

FallbackPass ==
  /\ pc = "primary"
  /\ dishes' = fallback_pass(dishes, response)
  /\ pc' = "scanned"
  /\ UNCHANGED <<response, dish_name, cleaned, words, queries, recipe, outcome, page>>

CleanFields ==
  /\ pc = "scanned"
  /\ dishes' = clean_fields(dishes)
  /\ pc' = "extracted"
  /\ UNCHANGED <<response, dish_name, cleaned, words, queries, recipe, outcome, page>>

ExtractNext == PrimaryPass \/ FallbackPass \/ CleanFields

ExtractSpec == ExtractInit /\ [][ExtractNext]_vars

----------------------------------------------------------------------------
(* clean_dish_name, applied to a dish name and then to its own result.     *)

CleanInit ==
  /\ pc = "clean"
  /\ dish_name \in CleanNames
  /\ cleaned = <<>>
  /\ response = <<>>
  /\ dishes = EmptyDishes
  /\ words = <<>>
  /\ queries = <<>>
  /\ recipe = None
  /\ outcome = NoCall
  /\ PageIdle

Clean ==
  /\ pc = "clean"
  /\ cleaned' = clean_dish_name(dish_name)
  /\ pc' = "cleaned"
  /\ UNCHANGED <<response, dishes, dish_name, words, queries, recipe, outcome, page>>

CleanAgain ==
  /\ pc = "cleaned"
  /\ cleaned' = clean_dish_name(cleaned)
  /\ pc' = "recleaned"
  /\ UNCHANGED <<response, dishes, dish_name, words, queries, recipe, outcome, page>>

CleanNext == Clean \/ CleanAgain

CleanSpec == CleanInit /\ [][CleanNext]_vars

----------------------------------------------------------------------------
(* search_recipe_smart: one action per call of search_recipe.              *)

Init ==
  /\ pc = "full"
  /\ dish_name \in DishNames
  /\ cleaned = <<>>
  /\ words = <<>>
  /\ queries = <<>>
  /\ recipe = None
  /\ response = <<>>
  /\ dishes = EmptyDishes
  /\ outcome = NoCall
  /\ PageIdle

\* one call of search_recipe: its argument, the step making it, its value
Call(q, step, r) == [q |-> q, step |-> step, result |-> r]

\* `return recipe`
Return(r) ==
  /\ recipe' = r
  /\ pc' = "returned"

\* step 3 begins: words = cleaned.split(); words.sort(key=len, reverse=True);
\* the loop runs to its first word longer than 3, or to `return None`
EnterWords ==
  /\ words' = word_list(cleaned')
  /\ IF words' = <<>> THEN Return(None) ELSE pc' = "word" /\ recipe' = recipe

\* the loop left one word early
more_to_trim_Two(ws) == Len(ws) > 2

\* `while len(words) > 1`
more_to_trim(ws) == Len(ws) > 1

\* step 1: cleaned = clean_dish_name(dish_name); recipe = search_recipe(cleaned)
FullLookup ==
  /\ pc = "full"
  /\ cleaned' = clean_dish_name(dish_name)
  /\ \E o \in Outcomes :
       LET r == search_recipe(cleaned', o)
       IN  /\ queries' = Append(queries, Call(cleaned', "full", r))
           /\ outcome' = [site |-> "search_recipe", kind |-> o]
           /\ IF Truthy(r) THEN Return(r) /\ words' = words
              ELSE IF more_to_trim(split_words(cleaned'))
                THEN words' = split_words(cleaned') /\ pc' = "trim" /\ recipe' = recipe
              ELSE EnterWords
  /\ UNCHANGED <<response, dishes, dish_name, page>>

\* step 2, one turn of `while len(words) > 1`: words.pop(0); search_recipe
TrimLookup ==
  /\ pc = "trim"
  /\ more_to_trim(words)
  /\ cleaned' = cleaned
  /\ \E o \in Outcomes :
       LET rest == Tail(words)
           r    == search_recipe(join(rest), o)
       IN  /\ queries' = Append(queries, Call(join(rest), "trim", r))
           /\ outcome' = [site |-> "search_recipe", kind |-> o]
           /\ IF Truthy(r) THEN Return(r) /\ words' = rest
              ELSE IF more_to_trim(rest)
                THEN words' = rest /\ pc' = "trim" /\ recipe' = recipe
              ELSE EnterWords
  /\ UNCHANGED <<response, dishes, dish_name, page>>

\* step 3, one turn of `for word in words` that makes a call
WordLookup ==
  /\ pc = "word"
  /\ words # <<>>
  /\ cleaned' = cleaned
  /\ \E o \in Outcomes :
       LET word == Head(words)
           r    == search_recipe(word, o)
       IN  /\ queries' = Append(queries, Call(word, "word", r))
           /\ outcome' = [site |-> "search_recipe", kind |-> o]
           /\ IF Truthy(r) THEN Return(r) /\ words' = words
              ELSE /\ words' = skip_short(Tail(words))
                   /\ IF words' = <<>> THEN Return(None)
                      ELSE pc' = "word" /\ recipe' = recipe
  /\ UNCHANGED <<response, dishes, dish_name, page>>

Next == FullLookup \/ TrimLookup \/ WordLookup

Spec == Init /\ [][Next]_vars

----------------------------------------------------------------------------
(* The page script: genre table, movie search, pairing, recipe tab and     *)
(* order tab of each movie.                                                *)

\* the UTF-8 bytes, as %XX, of the characters urllib.parse.quote replaces
QuoteTable ==
  (" " :> <<"%","2","0">>) @@ ("\n" :> <<"%","0","A">>) @@
  ("\t" :> <<"%","0","9">>) @@ ("!" :> <<"%","2","1">>) @@
  ("&" :> <<"%","2","6">>) @@ ("'" :> <<"%","2","7">>) @@
  ("*" :> <<"%","2","A">>) @@ ("," :> <<"%","2","C">>) @@
  (":" :> <<"%","3","A">>) @@
  ("ndash" :> <<"%","E","2","%","8","0","%","9","3">>)

\* urllib.parse.quote of one character: letters, digits and _ . - ~ / stay
quote_char(c) ==
  IF IsWordChar(c) \/ c \in {".", "-", "~", "/"} THEN <<c>> ELSE QuoteTable[c]

\* urllib.parse.quote(s)
RECURSIVE quote(_)
quote(s) == IF s = <<>> THEN <<>> ELSE quote_char(Head(s)) \o quote(Tail(s))

Recipe_Suffix == <<" ","r","e","c","i","p","e">>

YouTubeSearch == <<"h","t","t","p","s",":","/","/","w","w","w",".","y","o","u","t","u","b","e",".","c","o","m","/","r","e","s","u","l","t","s","?","s","e","a","r","c","h","_","q","u","e","r","y","=">>

GoogleSearch == <<"h","t","t","p","s",":","/","/","w","w","w",".","g","o","o","g","l","e",".","c","o","m","/","s","e","a","r","c","h","?","q","=">>

UberEats == <<"h","t","t","p","s",":","/","/","w","w","w",".","u","b","e","r","e","a","t","s",".","c","o","m","/","s","e","a","r","c","h","?","q","=">>

Lieferando == <<"h","t","t","p","s",":","/","/","w","w","w",".","l","i","e","f","e","r","a","n","d","o",".","d","e","/","e","n","/","d","e","l","i","v","e","r","y","/","f","o","o","d","/">>

JustEat == <<"h","t","t","p","s",":","/","/","w","w","w",".","j","u","s","t","-","e","a","t",".","c","o",".","u","k","/","s","e","a","r","c","h","?","q","=">>

\* the video link built from the normalized name
get_youtube_link_Cleaned(name) ==
  YouTubeSearch \o quote(clean_dish_name(name) \o Recipe_Suffix)

get_youtube_link(name) == YouTubeSearch \o quote(name \o Recipe_Suffix)

\* google_link of the recipe tab
get_google_link(name) == GoogleSearch \o quote(name \o Recipe_Suffix)

\* the three order URLs, in the order of the dict
get_order_links(name) ==
  LET encoded == quote(clean_dish_name(name))
  IN  <<UberEats \o encoded, Lieferando \o encoded, JustEat \o encoded>>

\* one st.* call: what is shown and with which text
El(kind, text) == [kind |-> kind, text |-> text]

\* one element per URL
Links(kind, urls) == [i \in 1..Len(urls) |-> El(kind, urls[i])]

\* the second operand never used
str_or_First(a, b) == a

\* `a or b` of two strings
str_or(a, b) == IF a # <<>> THEN a ELSE b

\* the genre table of the movie catalog
GenreTable ==
  (<<"2","7">> :> <<"H","o","r","r","o","r">>) @@ (<<"1","6">> :> <<"A","n","i","m","a","t","i","o","n">>)

\* what the HTTP call of get_tmdb_genres and of search_tmdb can end in
CatalogOutcomes == {"results", "http_error", "bad_json", "network_error"}

\* what the call of the language model can end in
LLMOutcomes == {"text", "error"}

\* what collection.query of the local store can end in
LocalOutcomes == {"results", "query_error"}

\* get_tmdb_genres() when its call ends in outcome o
get_tmdb_genres(o) == IF o = "results" THEN GenreTable ELSE EmptyMap

\* the text invoke_llm returns for an exception e: the warning sign (two
\* code points) and " LLM Error: {e}"
LLMError == <<"warning_sign", "vs16">> \o <<" ","L","L","M"," ","E","r","r","o","r",":"," ">>

\* str(e) of an exception of the language-model client
ErrorTexts == { <<"C","o","n","n","e","c","t","i","o","n"," ","e","r","r","o","r",".">> }

\* the greatest number of movies of a search (n_results)
MaxMovies == 2

\* the titles the movie catalog answers with, best match first
TmdbTitles == <<<<"J","a","w","s">>, <<"U","p">>, <<"H","e","a","t">>, <<"A","l","i","e","n">>>>

\* the titles the local store answers with, best match first
LocalTitles == <<<<"J","A","W","S">>, <<"B","i","g">>, <<"H","e","a","t">>, <<"C","o","c","o">>>>

\* item['genre_ids'] of the movies the catalog answers with: JSON numbers
TmdbGenreIds == << <<27>>, <<16, 27>>, <<>>, <<27, 99>> >>

\* meta['genre'] of the movies of the local store
LocalGenres == <<<<"T","h","r","i","l","l","e","r">>, <<"C","o","m","e","d","y">>, <<"C","r","i","m","e">>, <<"U","n","k","n","o","w","n">>>>

Unknown == <<"U","n","k","n","o","w","n">>

\* a dict key that is an int, and one that is a str: in Python 27 != '27',
\* the two never name the same entry
PyInt(n) == [type |-> "int", v |-> n]
PyStr(t) == [type |-> "str", v |-> t]

DigitChars == <<"0","1","2","3","4","5","6","7","8","9">>

\* str(n) of an int n >= 0
RECURSIVE py_str(_)
py_str(n) ==
  IF n < 10 THEN <<DigitChars[n + 1]>>
  ELSE py_str(n \div 10) \o <<DigitChars[(n % 10) + 1]>>

\* d.get(key, default) of a dict whose keys are all str
dict_get(d, key, default) ==
  IF key.type = "str" /\ key.v \in DOMAIN d THEN d[key.v] ELSE default

\* ", ".join(names)
RECURSIVE comma_join(_)
comma_join(names) ==
  IF names = <<>> THEN <<>>
  ELSE IF Len(names) = 1 THEN names[1]
  ELSE names[1] \o <<",", " ">> \o comma_join(Tail(names))

\* cloud_app.py: ", ".join([genre_map.get(str(gid), "Unknown") for gid in ...])
genre_names(genre_ids) ==
  comma_join([k \in 1..Len(genre_ids) |->
                dict_get(genre_map, PyStr(py_str(genre_ids[k])), Unknown)])

\* main.py: ", ".join([genre_map.get(gid, "Unknown") for gid in ...])
genre_names_main(genre_ids) ==
  comma_join([k \in 1..Len(genre_ids) |->
                dict_get(genre_map, PyInt(genre_ids[k]), Unknown)])

\* resolve_genres of main.py
resolve_genres(genre_id_string) ==
  IF genre_id_string = <<>> \/ genre_id_string = Unknown THEN Unknown
  ELSE LET parts == split(genre_id_string, <<",">>)
           ids   == [k \in 1..Len(parts) |-> strip(parts[k])]
           names == [k \in 1..Len(ids) |-> dict_get(genre_map, PyStr(ids[k]), ids[k])]
       IN  comma_join(names)

Movie(name, genre, source) == [title |-> name, genre |-> genre, source |-> source]

\* search_tmdb when its call ends in outcome o with a results: the first
\* n_results of them, [] for every exception
search_tmdb(o, a) ==
  IF o = "results"
    THEN [i \in 1..Min({a, MaxMovies}) |->
            Movie(TmdbTitles[i], genre_names(TmdbGenreIds[i]), "TMDB")]
    ELSE <<>>

\* search_tmdb of main.py
search_tmdb_main(o, a) ==
  IF o = "results"
    THEN [i \in 1..Min({a, MaxMovies}) |->
            Movie(TmdbTitles[i], genre_names_main(TmdbGenreIds[i]), "TMDB")]
    ELSE <<>>

\* search_local when the store answers with b documents
search_local(b) ==
  [i \in 1..Min({b, MaxMovies}) |-> Movie(LocalTitles[i], LocalGenres[i], "Local DB")]

\* `for m in movies: if title_lower not in seen: ...`
RECURSIVE unique(_, _)
unique(ms, seen) ==
  IF ms = <<>> THEN <<>>
  ELSE IF lower(Head(ms).title) \in seen THEN unique(Tail(ms), seen)
  ELSE <<Head(ms)>> \o unique(Tail(ms), seen \cup {lower(Head(ms).title)})

Sources == {"Both", "TMDB API", "Local DB"}

\* hybrid_search of main.py
hybrid_search(source, o, a, b) ==
  LET found         == search_tmdb_main(o, a)
      tmdb_results  == IF source \in {"TMDB API", "Both"}
                         THEN [i \in 1..Len(found) |->
                                 [found[i] EXCEPT !.genre = resolve_genres(@)]]
                         ELSE <<>>
      local_results == IF source \in {"Local DB", "Both"} THEN search_local(b) ELSE <<>>
      u == unique(tmdb_results \o local_results, {})
  IN  SubSeq(u, 1, Min({Len(u), MaxMovies}))

\* the search queries typed by the user
MovieQueries == { <<>>, <<"J","a","w","s">>, <<"E","p","i","c"," ","L","o","v","e">> }

\* the answers of the language model to the pairing prompt
PairingTexts ==
  { <<"M","A","I","N"," ","D","I","S","H",":"," ","S","e","a","r","e","d"," ","S","a","l","m","o","n","\n","D","R","I","N","K",":"," ","T","e","a","!">>,
    <<"*","*","M","a","i","n"," ","D","i","s","h","*","*",":"," ","M","a","c"," ","&"," ","C","h","e","e","s","e"," ","-"," ","s","o"," ","g","o","o","d","\n","*","*","S","n","a","c","k","*","*",":"," ","N","a","c","h","o","s">>,
    <<"J","u","s","t"," ","e","n","j","o","y"," ","i","t">> }

Variants == {"cloud_app", "main"}

RenderInit ==
  /\ pc = "startup"
  /\ variant \in Variants
  /\ movie_query \in MovieQueries
  /\ search_button \in BOOLEAN
  /\ genre_map = EmptyMap
  /\ movies = <<>>
  /\ tab = 0
  /\ rendered = <<>>
  /\ raised = NoException
  /\ outcome = NoCall
  /\ response = <<>>
  /\ dishes = EmptyDishes
  /\ dish_name = <<>>
  /\ cleaned = <<>>
  /\ words = <<>>
  /\ queries = <<>>
  /\ recipe = None

\* an exception leaves the script: the run ends
Raise(site, kind) ==
  /\ raised' = [kind |-> kind, site |-> site]
  /\ pc' = "crashed"

\* genre_map = get_tmdb_genres(), at module level
LoadGenres ==
  /\ pc = "startup"
  /\ \E o \in CatalogOutcomes \ {"http_error"} :
       /\ genre_map' = get_tmdb_genres(o)
       /\ outcome' = [site |-> "get_tmdb_genres", kind |-> o]
  /\ pc' = "gate"
  /\ UNCHANGED <<response, dishes, dish_name, cleaned, words, queries, recipe,
                 variant, movie_query, search_button, movies, tab, rendered,
                 raised>>

\* `if not movies: st.error(...)`, `else:` the tabs, the first one entered
ShowMovies ==
  IF movies' = <<>>
    THEN /\ rendered' = Append(rendered, El("error", movie_query))
         /\ tab' = 0
         /\ pc' = "done"
    ELSE /\ rendered' = rendered
         /\ tab' = 1
         /\ pc' = "pairing"

\* `if search_button and movie_query:` of cloud_app.py, to the first tab
SearchCloud ==
  /\ pc = "gate"
  /\ variant = "cloud_app"
  /\ IF search_button /\ movie_query # <<>>
       THEN \E o \in CatalogOutcomes, a \in 0..MaxMovies :
              /\ movies' = search_tmdb(o, a)
              /\ outcome' = [site |-> "search_tmdb", kind |-> o]
              /\ ShowMovies
       ELSE /\ pc' = "done"
            /\ UNCHANGED <<movies, outcome, tab, rendered>>
  /\ UNCHANGED <<response, dishes, dish_name, cleaned, words, queries, recipe,
                 variant, genre_map, movie_query, search_button, raised>>

\* `if search_button and movie_query:` of main.py, to the first tab
SearchMain ==
  /\ pc = "gate"
  /\ variant = "main"
  /\ IF search_button /\ movie_query # <<>>
       THEN \E source \in Sources, o \in CatalogOutcomes, l \in LocalOutcomes,
               a \in 0..MaxMovies, b \in 0..MaxMovies :
              IF source \in {"Local DB", "Both"} /\ l = "query_error"
                THEN /\ Raise("search_local", l)
                     /\ outcome' = [site |-> "search_local", kind |-> l]
                     /\ UNCHANGED <<movies, tab, rendered>>
                ELSE /\ movies' = hybrid_search(source, o, a, b)
                     /\ outcome' = IF source = "Local DB"
                                     THEN [site |-> "search_local", kind |-> l]
                                     ELSE [site |-> "search_tmdb", kind |-> o]
                     /\ raised' = raised
                     /\ ShowMovies
       ELSE /\ pc' = "done"
            /\ UNCHANGED <<movies, outcome, tab, rendered, raised>>
  /\ UNCHANGED <<response, dishes, dish_name, cleaned, words, queries, recipe,
                 variant, genre_map, movie_query, search_button>>

\* the columns of one tab: title, the pairing text, extract_dish_name
ShowPairing(text) ==
  /\ response' = text
  /\ rendered' = <<El("title", movies[tab].title),
                    El("genre", movies[tab].genre), El("pairing", text)>>
  /\ dishes' = extract_dish_name(text)
  /\ pc' = "recipe_tab"
  /\ raised' = raised

\* col_poster, col_info, col_pairing of cloud_app.py: response = invoke_llm(prompt)
PairingCloud ==
  /\ pc = "pairing"
  /\ variant = "cloud_app"
  /\ \E o \in LLMOutcomes :
       /\ outcome' = [site |-> "llm", kind |-> o]
       /\ IF o = "text"
            THEN \E text \in PairingTexts : ShowPairing(text)
            ELSE \E e \in ErrorTexts : ShowPairing(LLMError \o e)
  /\ UNCHANGED <<dish_name, cleaned, words, queries, recipe,
                 variant, genre_map, movie_query, search_button, movies, tab>>

\* col_poster, col_info, col_pairing of main.py: response = llm.invoke(...)
PairingMain ==
  /\ pc = "pairing"
  /\ variant = "main"
  /\ \E o \in LLMOutcomes :
       /\ outcome' = [site |-> "llm", kind |-> o]
       /\ IF o = "text"
            THEN \E text \in PairingTexts : ShowPairing(text)
            ELSE /\ Raise("llm.invoke", o)
                 /\ rendered' = <<El("title", movies[tab].title),
                                   El("genre", movies[tab].genre)>>
                 /\ UNCHANGED <<response, dishes>>
  /\ UNCHANGED <<dish_name, cleaned, words, queries, recipe,
                 variant, genre_map, movie_query, search_button, movies, tab>>

\* `with recipe_tab:` up to the call of search_recipe_smart
RecipeTab ==
  /\ pc = "recipe_tab"
  /\ LET dish_to_search == str_or(dishes.main, movie_query)
     IN  IF dish_to_search # <<>>
           THEN /\ dish_name' = dish_to_search
                /\ pc' = "full"
                /\ rendered' = rendered
           ELSE /\ dish_name' = dish_name
                /\ pc' = "order_tab"
                /\ rendered' = Append(rendered, El("warning", <<>>))
  /\ UNCHANGED <<response, dishes, cleaned, words, queries, recipe, outcome,
                 variant, genre_map, movie_query, search_button, movies, tab,
                 raised>>

\* `if recipe:` the recipe, `else:` the links for a manual search
RecipeShown ==
  /\ pc = "returned"
  /\ tab > 0
  /\ rendered' =
       IF Truthy(recipe)
         THEN Append(rendered, El("recipe", recipe.name))
         ELSE rendered \o <<El("info", dish_name),
                            El("youtube", get_youtube_link(dish_name)),
                            El("google", get_google_link(dish_name))>>
  /\ pc' = "order_tab"
  /\ UNCHANGED <<response, dishes, dish_name, cleaned, words, queries, recipe,
                 outcome, variant, genre_map, movie_query, search_button,
                 movies, tab, raised>>

\* `with order_tab:`, then the next turn of `for i, tab in enumerate(tabs)`;
\* the locals of the recipe tab are not read again
OrderTab ==
  /\ pc = "order_tab"
  /\ LET dish_to_order == str_or(dishes.main, movie_query)
     IN  rendered' =
           rendered \o <<El("order", dish_to_order)>>
             \o Links("order_link", get_order_links(dish_to_order))
             \o (IF dishes.drink # <<>>
                   THEN Links("drink_link", get_order_links(dishes.drink))
                   ELSE <<>>)
             \o (IF dishes.snack # <<>>
                   THEN Links("snack_link", get_order_links(dishes.snack))
                   ELSE <<>>)
  /\ IF tab < Len(movies)
       THEN tab' = tab + 1 /\ pc' = "pairing"
       ELSE tab' = tab /\ pc' = "done"
  /\ dish_name' = <<>>
  /\ cleaned' = <<>>
  /\ words' = <<>>
  /\ queries' = <<>>
  /\ recipe' = None
  /\ UNCHANGED <<response, dishes, outcome, variant, genre_map, movie_query,
                 search_button, movies, raised>>

RenderNext ==
  \/ LoadGenres \/ SearchCloud \/ SearchMain
  \/ PairingCloud \/ PairingMain \/ RecipeTab
  \/ FullLookup \/ TrimLookup \/ WordLookup
  \/ RecipeShown \/ OrderTab

RenderSpec == RenderInit /\ [][RenderNext]_vars

----------------------------------------------------------------------------
(* Properties of extract_dish_name, checked under ExtractSpec.             *)

UpperStyle == <<MAIN_DISH, DRINK, SNACK>>

NewLine == <<"\n">>

Space == <<" ">>

\* a letter, a digit, whitespace, an apostrophe or a hyphen
IsPlainChar(c) ==
  c \in UpperSet \cup LowerSet \cup DigitSet \cup {" ", "\n", "\t", "'", "-"}

\* x as the extractor returns it: the characters other than letters,
\* digits, underscores, whitespace, apostrophes and hyphens removed, every
\* run of whitespace turned into one space, the ends trimmed
Tidy(x) ==
  LET Kept(c) == IsPlainChar(c) \/ c = "_"
  IN  strip(sub_spaces(SelectSeq(x, Kept)))

\* x is returned as it is
IsTidy(x) == Tidy(x) = x

Triple(a, b, c) == [main |-> a, drink |-> b, snack |-> c]

\* C1, as stated: for all dish strings A, B, C the three lines
\* 'MAIN DISH: A', 'DRINK: B', 'SNACK: C' give exactly {A, B, C}.
C1_ExactTriple ==
  pc = "extracted" =>
    \A a \in DishStrings, b \in DishStrings, c \in DishStrings :
      response = Labelled(UpperStyle, a, b, c, NewLine) =>
        dishes = Triple(a, b, c)

\* C1, amended: the three lines 'MAIN DISH: A', 'DRINK: B', 'SNACK: C' give
\* {A, B, C} after post-processing (characters other than letters, digits,
\* underscores, whitespace, apostrophes and hyphens removed, whitespace runs
\* collapsed); exactly {A, B, C} when A, B and C are unchanged by it.
C1_TidyTriple ==
  pc = "extracted" =>
    \A a \in DishStrings, b \in DishStrings, c \in DishStrings :
      response = Labelled(UpperStyle, a, b, c, NewLine) =>
        /\ dishes = Triple(Tidy(a), Tidy(b), Tidy(c))
        /\ (IsTidy(a) /\ IsTidy(b) /\ IsTidy(c) => dishes = Triple(a, b, c))

Tacos == <<"T","a","c","o","s">>

MacAndCheese == <<"M","a","c"," ","&"," ","C","h","e","e","s","e">>

StirFry == <<"S","t","i","r","-","f","r","y">>

C1_Witness ==
  /\ pc = "extracted"
  /\ response = Labelled(UpperStyle, MacAndCheese, StirFry, Tacos, NewLine)
  /\ dishes = Triple(<<"M","a","c"," ","C","h","e","e","s","e">>, StirFry, Tacos)

\* C2, as stated: the one line 'MAIN DISH: A DRINK: B SNACK: C' gives
\* exactly {A, B, C}.
C2_ExactTriple ==
  pc = "extracted" =>
    \A a \in DishStrings, b \in DishStrings, c \in DishStrings :
      response = Labelled(UpperStyle, a, b, c, Space) =>
        dishes = Triple(a, b, c)

\* C2, amended: the one line 'MAIN DISH: A DRINK: B SNACK: C' is split at
\* the labels and gives {A, B, C} after post-processing, exactly {A, B, C}
\* when A, B and C are unchanged by it; no field holds text of another.
C2_TidyTriple ==
  pc = "extracted" =>
    \A a \in DishStrings, b \in DishStrings, c \in DishStrings :
      response = Labelled(UpperStyle, a, b, c, Space) =>
        /\ dishes = Triple(Tidy(a), Tidy(b), Tidy(c))
        /\ (IsTidy(a) /\ IsTidy(b) /\ IsTidy(c) => dishes = Triple(a, b, c))

C2_Witness ==
  /\ pc = "extracted"
  /\ response = Labelled(UpperStyle, Tacos, MacAndCheese, StirFry, Space)
  /\ dishes = Triple(Tacos, <<"M","a","c"," ","C","h","e","e","s","e">>, StirFry)

Fields == {"main", "drink", "snack"}

\* C3, as stated: every character of a returned field is a letter, a
\* digit, whitespace, an apostrophe or a hyphen.
C3_NoUnderscore ==
  pc = "extracted" =>
    \A k \in Fields : \A i \in 1..Len(dishes[k]) : IsPlainChar(dishes[k][i])

\* C3, amended: every character of a returned field is a letter, a digit,
\* an underscore, whitespace, an apostrophe or a hyphen.
C3_WordChars ==
  pc = "extracted" =>
    \A k \in Fields : \A i \in 1..Len(dishes[k]) :
      IsPlainChar(dishes[k][i]) \/ dishes[k][i] = "_"

\* a response with '&' and '!' of which a field keeps an underscore
C3_Witness ==
  /\ pc = "extracted"
  /\ \E i \in 1..Len(response) : response[i] \in {"&", "!"}
  /\ \E k \in Fields : \E i \in 1..Len(dishes[k]) : dishes[k][i] = "_"

\* the k-th separator is the first of the list to occur in x, and it
\* occurs first right after the n leading characters of x
CutsAfter(x, k, n) ==
  /\ \A m \in 1..(k - 1) : ~contains(x, separators[m])
  /\ find(x, separators[k]) = n + 1

\* C8, as stated: '**Main Dish**: <name>' gives main = <name>, and followed
\* by one of the separators and a clause it gives the text before that
\* separator (for a <name> that the post-processing leaves alone).
C8_NameBeforeSeparator ==
  pc = "extracted" =>
    \A n \in MarkdownNames :
      IsTidy(n) =>
        /\ response = MarkdownMain \o n => dishes.main = n
        /\ \A k \in 1..Len(separators), c \in Clauses :
             response = MarkdownMain \o n \o separators[k] \o c => dishes.main = n

\* C8, amended: for '**Main Dish**: <name>' alone on its line, with no
\* colon after the label's, main is <name> post-processed when no separator
\* occurs in <name>; followed by a separator and a clause, main is <name>
\* post-processed when the text after the label has no further colon, that
\* separator is the first of the list to occur in it, and it occurs there
\* first right after <name>.
C8_FirstListedSeparator ==
  pc = "extracted" =>
    \A n \in MarkdownNames :
      /\ response = MarkdownMain \o n
           /\ ~contains(n, Colon)
           /\ (\A m \in 1..Len(separators) : ~contains(n, separators[m]))
           => dishes.main = Tidy(n)
      /\ \A k \in 1..Len(separators), c \in Clauses :
           response = MarkdownMain \o n \o separators[k] \o c
             /\ ~contains(n \o separators[k] \o c, Colon)
             /\ CutsAfter(n \o separators[k] \o c, k, Len(n))
             => dishes.main = Tidy(n)

\* '**Main Dish**: Tacos - so good' gives 'Tacos'
C8_Witness ==
  /\ pc = "extracted"
  /\ response = MarkdownMain \o Tacos \o separators[1] \o <<"s","o"," ","g","o","o","d">>
  /\ dishes.main = Tacos

MixedStyle == <<<<"m","a","i","n"," ","d","i","s","h",":">>, <<"D","r","i","n","k",":">>, <<"s","N","a","C","k",":">>>>

\* C9, as stated: the labels are recognised in any casing, so that
\* 'main dish: A', 'Drink: B', 'sNaCk: C' on separate lines give A, B, C
\* (for A, B, C that the post-processing leaves alone).
C9_AnyCasing ==
  pc = "extracted" =>
    \A st \in LabelStyles :
      \A a \in DishStrings, b \in DishStrings, c \in DishStrings :
        response = Labelled(st, a, b, c, NewLine)
          /\ IsTidy(a) /\ IsTidy(b) /\ IsTidy(c)
          => dishes = Triple(a, b, c)

\* C9, amended: the labels are recognised in upper case ('MAIN DISH:' or
\* 'MAIN_DISH:', 'DRINK:', 'SNACK:') and, by the line scan, as 'Main Dish',
\* 'Drink', 'Snack'; in no other casing.  'main dish: A', 'Drink: B',
\* 'sNaCk: C' on separate lines give main = '', drink = B post-processed,
\* snack = '' (B without a colon or a separator).
C9_ExactCasing ==
  pc = "extracted" =>
    \A a \in DishStrings, b \in DishStrings, c \in DishStrings :
      /\ response = Labelled(MixedStyle, a, b, c, NewLine)
           /\ ~contains(b, Colon)
           /\ (\A m \in 1..Len(separators) : ~contains(b, separators[m]))
           => dishes = Triple(<<>>, Tidy(b), <<>>)
      /\ response = Labelled(UpperStyle, a, b, c, NewLine)
           => dishes = Triple(Tidy(a), Tidy(b), Tidy(c))

C9_Witness ==
  /\ pc = "extracted"
  /\ response = Labelled(MixedStyle, Tacos, StirFry, MacAndCheese, NewLine)
  /\ dishes = Triple(<<>>, StirFry, <<>>)

\* C10: a response with 'MAIN_DISH:' gives the same three fields as the
\* response with every 'MAIN_DISH:' replaced by 'MAIN DISH:'.
C10_UnderscoreSameAsSpace ==
  pc = "extracted" /\ contains(response, MAIN_DISH_US) =>
    dishes = extract_dish_name(str_replace(response, MAIN_DISH_US, MAIN_DISH))

C10_Witness ==
  /\ pc = "extracted"
  /\ contains(response, MAIN_DISH_US)
  /\ ~contains(response, MAIN_DISH)
  /\ dishes.main # <<>>
  /\ dishes.drink # <<>>

----------------------------------------------------------------------------
(* Properties of clean_dish_name, checked under CleanSpec.                 *)

\* the words es occur in ws one after the other, in any casing
OccursAsTokens(ws, es) ==
  \E i \in 1..(Len(ws) - Len(es) + 1) :
    \A k \in 1..Len(es) : lower(ws[i + k - 1]) = es[k]

\* w is no entry of the denylist and has no character that is removed
IsOrdinaryWord(w) ==
  /\ \A n \in 1..Len(flair_words) : lower(w) # flair_words[n]
  /\ \A i \in 1..Len(w) : IsPlainChar(w[i]) \/ w[i] = "_"

\* C6: every entry of the denylist that occurs in the dish name as a whole
\* token, in any casing, is removed; a word that only contains an entry
\* ('Lovebird') is kept.
C6_EveryEntryRemoved ==
  pc = "cleaned" =>
    /\ \A n \in 1..Len(flair_words) :
         OccursAsTokens(split_words(dish_name), split_words(flair_words[n]))
           => ~OccursAsTokens(split_words(cleaned), split_words(flair_words[n]))
    /\ \A i \in 1..Len(split_words(dish_name)) :
         IsOrdinaryWord(split_words(dish_name)[i])
           => \E j \in 1..Len(split_words(cleaned)) :
                split_words(cleaned)[j] = split_words(dish_name)[i]

\* what does hold: the entries of one word are removed, the ordinary words
\* are kept
OneWordEntriesRemoved ==
  pc = "cleaned" =>
    /\ \A n \in 1..Len(flair_words) :
         Len(split_words(flair_words[n])) = 1
           => ~OccursAsTokens(split_words(cleaned), split_words(flair_words[n]))
    /\ \A i \in 1..Len(split_words(dish_name)) :
         IsOrdinaryWord(split_words(dish_name)[i])
           => \E j \in 1..Len(split_words(cleaned)) :
                split_words(cleaned)[j] = split_words(dish_name)[i]

\* C7: clean_dish_name applied to its own result changes nothing.
C7_Idempotent == [][pc = "cleaned" => cleaned' = cleaned]_vars

\* a name the first application changed, cleaned a second time
C7_Witness ==
  /\ pc = "recleaned"
  /\ cleaned # <<>>
  /\ cleaned # dish_name
  /\ \E i \in 1..Len(dish_name) : dish_name[i] \in {"!", ","}

----------------------------------------------------------------------------
(* Properties of search_recipe_smart, checked under Spec.                  *)

Salmon == <<"S","a","l","m","o","n">>

SearedSalmon == <<"S","e","a","r","e","d"," ","S","a","l","m","o","n">>

RomanticSearedSalmon == <<"R","o","m","a","n","t","i","c"," ","S","e","a","r","e","d"," ","S","a","l","m","o","n">>

SpaghettiCarbonara == <<"S","p","a","g","h","e","t","t","i"," ","C","a","r","b","o","n","a","r","a">>

Meal(q) == [kind |-> "meal", name |-> q]

IsHit(call) == call.result.kind = "meal"

\* ws without its first i words, as one string
Suffix(ws, i) == join(SubSeq(ws, i + 1, Len(ws)))

\* C4: a call of the per-word step is made only after the call with the
\* full normalized name and the calls with every left-trimmed suffix, in
\* that order, all of which missed; for 'Romantic Seared Salmon', when these
\* miss and the call with the word 'Salmon' hits, its record is returned.
C4_WordsAfterAllMissed ==
  /\ \A k \in 1..Len(queries) :
       queries[k].step = "word" =>
         LET ws == split_words(cleaned)
         IN  /\ k > Len(ws)
             /\ queries[1] = Call(cleaned, "full", None)
             /\ \A i \in 1..(Len(ws) - 1) :
                  queries[i + 1] = Call(Suffix(ws, i), "trim", None)
             /\ \A i \in 1..(k - 1) : ~IsHit(queries[i])
  /\ dish_name = RomanticSearedSalmon /\ pc = "returned"
       /\ (\E k \in 1..Len(queries) : queries[k] = Call(Salmon, "word", Meal(Salmon)))
       => /\ recipe = Meal(Salmon)
          /\ queries[1] = Call(SearedSalmon, "full", None)
          /\ queries[2] = Call(Salmon, "trim", None)

C4_Witness ==
  /\ pc = "returned"
  /\ dish_name = RomanticSearedSalmon
  /\ recipe = Meal(Salmon)
  /\ Len(queries) = 4
  /\ queries[4] = Call(Salmon, "word", Meal(Salmon))

\* C5: no call of search_recipe follows a call that returned a record, and
\* that record is the value returned; when the call with the full
\* normalized name hits it is the only call, and steps 2 and 3 are not
\* entered.
C5_StopsAtFirstHit ==
  /\ \A i \in 1..Len(queries) :
       IsHit(queries[i]) =>
         /\ i = Len(queries)
         /\ pc = "returned"
         /\ recipe = queries[i].result
  /\ Len(queries) >= 1 /\ IsHit(queries[1]) =>
       /\ queries = <<Call(cleaned, "full", Meal(cleaned))>>
       /\ words = <<>>

C5_Witness ==
  /\ pc = "returned"
  /\ dish_name = SpaghettiCarbonara
  /\ queries = <<Call(SpaghettiCarbonara, "full", Meal(SpaghettiCarbonara))>>
  /\ recipe = Meal(SpaghettiCarbonara)

\* the queries of the per-word step, in the order of the calls
WordQueries == SelectSeq(queries, LAMBDA c : c.step = "word")

\* the number of elements of ws equal to w
Count(ws, w) == Cardinality({i \in 1..Len(ws) : ws[i] = w})

RedSalmon == <<"R","e","d"," ","S","a","l","m","o","n">>

\* C11: every lookup of the per-word step is made with a word of the
\* normalized name that is longer than 3 characters, so a word of length 3
\* or less is never looked up; when the step ends without a hit, every word
\* longer than 3 has been looked up, once for each time it occurs.
C11_ShortWordsSkipped ==
  LET ws == split_words(cleaned)
  IN  /\ \A k \in 1..Len(WordQueries) :
           /\ Len(WordQueries[k].q) > 3
           /\ \E i \in 1..Len(ws) : ws[i] = WordQueries[k].q
           /\ k < Len(WordQueries) => ~IsHit(WordQueries[k])
      /\ pc = "returned" /\ recipe = None =>
           \A i \in 1..Len(ws) :
             Len(ws[i]) > 3 =>
               Count([k \in 1..Len(WordQueries) |-> WordQueries[k].q], ws[i])
                 = Count(ws, ws[i])

\* 'Red Salmon': 'Red' is skipped, 'Salmon' is tried
C11_Witness ==
  /\ pc = "returned"
  /\ dish_name = RedSalmon
  /\ recipe = None
  /\ Len(WordQueries) = 1
  /\ WordQueries[1].q = Salmon

\* the outcomes of a lookup that are failures or an empty answer
Failures == Outcomes \ {"meal"}

\* the number of lookups of a resolution in which every lookup misses
Candidates(c) ==
  LET ws == split_words(c)
  IN  1 + Max({Len(ws) - 1, 0}) + Len(SelectSeq(ws, LAMBDA w : Len(w) > 3))

\* C12: a lookup that ends in a network error, an unparsable answer or an
\* empty answer gives None like a miss does; search_recipe_smart then goes
\* on to its next candidate, and when no candidate is left it returns None;
\* no exception leaves the resolution.
C12_FailureIsAMiss ==
  /\ raised = NoException
  /\ \A k \in 1..Len(queries) : queries[k].result \in {None, Meal(queries[k].q)}
  /\ outcome.site = "search_recipe" /\ outcome.kind \in Failures =>
       /\ queries[Len(queries)].result = None
       /\ \A o \in Failures :
            search_recipe(queries[Len(queries)].q, o) = None
       /\ pc \in {"trim", "word", "returned"}
       /\ pc \in {"trim", "word"} => Len(queries) < Candidates(cleaned)
       /\ pc = "returned" =>
            /\ recipe = None
            /\ Len(queries) = Candidates(cleaned)
            /\ \A k \in 1..Len(queries) : queries[k].result = None

\* every lookup for 'Romantic Seared Salmon' made, the last one ending in a
\* network error
C12_Witness ==
  /\ pc = "returned"
  /\ dish_name = RomanticSearedSalmon
  /\ outcome = [site |-> "search_recipe", kind |-> "network_error"]
  /\ Len(queries) = 4
  /\ recipe = None

----------------------------------------------------------------------------
(* Properties of the page script, checked under RenderSpec.                *)

\* the latest external call was made in site and did not give an answer
Failed(site) == outcome.site = site /\ outcome.kind \notin {"results", "text", "meal", "no_meals"}

\* C13: a failure of the genre list, of the movie catalog, of the language
\* model or of the recipe catalog is turned into an empty result where the
\* call is made: no exception leaves the script in either app, and after a
\* failure of the language model there is no pairing text to parse.
C13_FailuresCaught ==
  /\ raised = NoException
  /\ pc # "crashed"
  /\ Failed("get_tmdb_genres") => genre_map = EmptyMap
  /\ Failed("search_tmdb") /\ variant = "cloud_app" => movies = <<>>
  /\ Failed("search_recipe") /\ queries # <<>> =>
       queries[Len(queries)].result = None
  /\ Failed("llm") => response = <<>> /\ dishes = EmptyDishes

\* what does hold: the exceptions of get_tmdb_genres, search_tmdb and
\* search_recipe are caught in both apps and cloud_app.py lets none out;
\* the only exceptions that leave main.py are those of llm.invoke and of
\* the local store
CatalogFailuresCaught ==
  /\ Failed("get_tmdb_genres") => genre_map = EmptyMap
  /\ Failed("search_tmdb") /\ variant = "cloud_app" => movies = <<>>
  /\ Failed("search_recipe") /\ queries # <<>> =>
       queries[Len(queries)].result = None
  /\ raised # NoException =>
       /\ variant = "main"
       /\ raised.site \in {"llm.invoke", "search_local"}
       /\ pc = "crashed"

EpicLove == <<"E","p","i","c"," ","L","o","v","e">>

\* C16: when search_recipe_smart has returned None for the dish it was
\* called with, the recipe tab shows, in the same pass, the video-search
\* link and the web-search link built from that dish name as it was passed
\* (not from its normalized form); when it returned a record, and before
\* it has returned, neither link is shown.
C16_ManualSearchWhenNotFound ==
  /\ pc = "returned" /\ tab > 0 =>
       \A k \in 1..Len(rendered) : rendered[k].kind \notin {"youtube", "google"}
  /\ pc = "order_tab" =>
       LET shown == {rendered[k] : k \in 1..Len(rendered)}
           yt == El("youtube", YouTubeSearch \o quote(dish_name \o Recipe_Suffix))
           gg == El("google", GoogleSearch \o quote(dish_name \o Recipe_Suffix))
       IN  /\ dish_name = str_or(dishes.main, movie_query)
           /\ queries # <<>>
           /\ recipe = None => yt \in shown /\ gg \in shown
           /\ recipe # None =>
                \A x \in shown : x.kind \notin {"youtube", "google"}
           /\ \A x \in shown : x.kind = "youtube" => x = yt
           /\ \A x \in shown : x.kind = "google" => x = gg

\* 'Epic Love' is normalized to '', and the links are built from 'Epic Love'
C16_Witness ==
  /\ pc = "order_tab"
  /\ dish_name = EpicLove
  /\ cleaned = <<>>
  /\ recipe = None
  /\ \E k \in 1..Len(rendered) :
       rendered[k] = El("youtube", <<"h","t","t","p","s",":","/","/","w","w","w",".","y","o","u","t","u","b","e",".","c","o","m","/","r","e","s","u","l","t","s","?","s","e","a","r","c","h","_","q","u","e","r","y","=","E","p","i","c","%","2","0","L","o","v","e","%","2","0","r","e","c","i","p","e">>)
  /\ \E k \in 1..Len(rendered) :
       rendered[k] = El("google", <<"h","t","t","p","s",":","/","/","w","w","w",".","g","o","o","g","l","e",".","c","o","m","/","s","e","a","r","c","h","?","q","=","E","p","i","c","%","2","0","L","o","v","e","%","2","0","r","e","c","i","p","e">>)

\* x is a string: a sequence of characters
IsString(x) == DOMAIN x = 1..Len(x) /\ \A i \in 1..Len(x) : x[i] \in STRING

\* the upper-case label and the capitalised label of each field
UpperLabel == [main |-> MAIN_DISH, drink |-> DRINK, snack |-> SNACK]

LineLabel == [main |-> Main_Dish, drink |-> Drink, snack |-> Snack]

\* C14: for every response extract_dish_name returns a record of exactly
\* the fields main, drink and snack, each a string, and a field none of
\* whose labels occurs in the response is the empty string.
C14_ThreeStrings ==
  /\ pc \in {"extract", "primary", "scanned", "extracted"}
  /\ DOMAIN dishes = Fields
  /\ pc = "extracted" =>
       \A f \in Fields :
         /\ IsString(dishes[f])
         /\ ~contains(normalize(response), UpperLabel[f])
              /\ ~contains(response, LineLabel[f])
              => dishes[f] = <<>>

\* a response with a drink only
C14_Witness ==
  /\ pc = "extracted"
  /\ response = <<"D","R","I","N","K",":"," ","T","e","a","!">>
  /\ dishes = Triple(<<>>, <<"T","e","a">>, <<>>)

\* r has none of the label forms
NoLabelForm(r) ==
  /\ \A f \in Fields : ~contains(normalize(r), UpperLabel[f])
  /\ LET lines == split(r, NewLine)
     IN  \A i \in 1..Len(lines), f \in Fields :
           ~(contains(lines[i], LineLabel[f]) /\ contains(lines[i], Colon))

\* C15: a response with no 'MAIN DISH:', 'MAIN_DISH:', 'DRINK:' or
\* 'SNACK:' and with no line that has 'Main Dish', 'Drink' or 'Snack'
\* together with a colon gives three empty fields.
C15_NoLabelAllEmpty ==
  pc = "extracted" /\ NoLabelForm(response) => dishes = EmptyDishes

\* 'Drink' on two lines, no colon
C15_Witness ==
  /\ pc = "extracted"
  /\ response = <<"J","u","s","t"," ","D","r","i","n","k"," ","i","t","\n","J","u","s","t"," ","D","r","i","n","k"," ","i","t">>
  /\ NoLabelForm(response)
  /\ dishes = EmptyDishes

\* line has the capitalised label of field f together with a colon, and not
\* the label of a field tested before f
Qualifies(f, line) ==
  /\ contains(line, LineLabel[f]) /\ contains(line, Colon)
  /\ f = "drink" => ~contains(line, Main_Dish)
  /\ f = "snack" => ~contains(line, Main_Dish) /\ ~contains(line, Drink)

\* the value the first qualifying line of r gives to field f, d[f] when the
\* primary pass has set the field or no line qualifies
FirstLineValue(d, r, f) ==
  LET lines == split(r, NewLine)
      Q == {i \in 1..Len(lines) : Qualifies(f, strip(lines[i]))}
  IN  IF d[f] # <<>> \/ Q = {} THEN d[f]
      ELSE raw_of_line(strip(lines[Min(Q)]))

Pie == <<"P","i","e">>

\* C17: in the line scan each field is given the value of its first
\* qualifying line, and a later qualifying line does not overwrite it.
C17_FirstLineWins ==
  pc = "scanned" /\ primary_pass(response).main = <<>> =>
    \A f \in Fields :
      dishes[f] = FirstLineValue(primary_pass(response), response, f)

\* what does hold: drink and snack keep the value of their first qualifying
\* line; main has the value of its last qualifying line
LastMainLineWins ==
  pc = "scanned" /\ primary_pass(response).main = <<>> =>
    /\ \A f \in {"drink", "snack"} :
         dishes[f] = FirstLineValue(primary_pass(response), response, f)
    /\ LET lines == split(response, NewLine)
           Q == {i \in 1..Len(lines) : Qualifies("main", strip(lines[i]))}
       IN  dishes.main = IF Q = {} THEN <<>>
                         ELSE raw_of_line(strip(lines[Max(Q)]))

\* the text of s from position p to the end of its line
RestOfLine(s, p) ==
  LET e == find_from(s, NewLine, p)
  IN  SubSeq(s, p, IF e = 0 THEN Len(s) ELSE e - 1)

\* C18: the value the primary pass captures for a field has no line break,
\* has no label of another field, and is part of the text that follows the
\* field's label on the label's own line.
C18_CaptureStaysOnLine ==
  pc = "primary" =>
    \A f \in Fields :
      dishes[f] # <<>> =>
        /\ ~contains(dishes[f], NewLine)
        /\ \A g \in Fields \ {f} : ~contains(dishes[f], UpperLabel[g])
        /\ \E p \in 1..Len(response) :
             /\ StartsWithAt(normalize(response), p, UpperLabel[f])
             /\ contains(RestOfLine(normalize(response), p + Len(UpperLabel[f])),
                         dishes[f])

\* what does hold: the capture has no line break, and when the label is
\* followed on its own line by a character that is no whitespace the
\* capture begins there
CaptureHasNoLineBreak ==
  pc = "primary" =>
    \A f \in Fields :
      /\ ~contains(dishes[f], NewLine)
      /\ LET n == normalize(response)
             p == find(n, UpperLabel[f])
         IN  p # 0 /\ strip(RestOfLine(n, p + Len(UpperLabel[f]))) # <<>>
               /\ ~StartsWithAt(strip(RestOfLine(n, p + Len(UpperLabel[f]))), 1, UpperLabel[f])
               => /\ dishes[f] # <<>>
                  /\ StartsWithAt(strip(RestOfLine(n, p + Len(UpperLabel[f]))), 1, dishes[f])

\* C19: when the primary pass has found a main dish the step of the line
\* scan changes no field, and the fields returned are what the primary pass
\* found, post-processed, even where a line such as '**Drink**: X' is
\* present.
C19_FallbackOnlyWithoutMain ==
  [][/\ pc = "primary" /\ dishes.main # <<>> => dishes' = dishes
     /\ pc = "scanned" =>
          \A f \in Fields :
            dishes'[f] = IF dishes[f] # <<>> THEN clean_field(dishes[f]) ELSE <<>>]_vars

\* 'MAIN DISH: Tacos' followed by the line '**Drink**: Chai, a cup'
C19_Witness ==
  /\ pc = "extracted"
  /\ response = <<"M","A","I","N"," ","D","I","S","H",":"," ","T","a","c","o","s","\n","*","*","D","r","i","n","k","*","*",":"," ","C","h","a","i",","," ","a"," ","c","u","p">>
  /\ dishes = Triple(Tacos, <<>>, <<>>)

\* the place of the i-th word of ws among the words longer than 3, longest
\* first, words of equal length in their order in ws
Rank(ws, i) ==
  1 + Cardinality({j \in 1..Len(ws) :
                     /\ Len(ws[j]) > 3
                     /\ \/ Len(ws[j]) > Len(ws[i])
                        \/ Len(ws[j]) = Len(ws[i]) /\ j < i})

TunaSalmonSeared == <<"T","u","n","a"," ","S","a","l","m","o","n"," ","S","e","a","r","e","d">>

----------------------------------------------------------------------------
(* Termination of search_recipe_smart.                                     *)

\* search_recipe_smart has a statement left to run: the first lookup, a turn
\* of `while len(words) > 1`, or a turn of `for word in words` with a lookup
CanStep ==
  \/ pc = "full"
  \/ pc = "trim" /\ more_to_trim(words)
  \/ pc = "word" /\ words # <<>>

\* search_recipe_smart runs in one thread and every call of search_recipe
\* returns (requests.get has timeout=5 and the body is inside try/except), so
\* a statement that is left to run is run: this is WF_vars(Next) with
\* ENABLED <<Next>>_vars written out as CanStep
TerminatingSpec ==
  Init /\ [][Next]_vars /\ ([]<>(~CanStep) \/ []<><<Next>>_vars)

\* 1 + max(n-1, 0) + n for the n words of the normalized name c
LookupBound(c) ==
  LET n == Len(split_words(c))
  IN  1 + Max({n - 1, 0}) + n

\* the resolution has returned a recipe (Found) or None (NotFound)
Resolved ==
  /\ pc = "returned"
  /\ \/ recipe = None
     \/ /\ queries # <<>>
        /\ recipe = Meal(queries[Len(queries)].q)
        /\ recipe = queries[Len(queries)].result

\* every candidate of the three steps was looked up and missed
Exhausted ==
  LET ws == split_words(cleaned)
      n  == Len(ws)
  IN  /\ \A k \in 1..Len(queries) : queries[k].result = None
      /\ \E k \in 1..Len(queries) :
           queries[k].step = "full" /\ queries[k].q = cleaned
      /\ \A i \in 1..(n - 1) :
           \E k \in 1..Len(queries) :
             queries[k].step = "trim" /\ queries[k].q = Suffix(ws, i)
      /\ \A i \in 1..n :
           Len(ws[i]) > 3 =>
             \E k \in 1..Len(queries) :
               queries[k].step = "word" /\ queries[k].q = ws[i]

\* C21: every resolution ends, with a recipe or with None; it never makes
\* more than 1 + max(n-1, 0) + n lookups for a normalized name of n words;
\* and it ends with None only when the name, every left-trimmed suffix and
\* every word longer than 3 have been looked up and all of them missed.
C21_Terminates ==
  /\ [](/\ pc \in {"full", "trim", "word", "returned"}
        /\ pc # "returned" => CanStep
        /\ pc # "full" => Len(queries) <= LookupBound(cleaned)
        /\ pc = "returned" => Resolved
        /\ pc = "returned" /\ recipe = None => Exhausted)
  /\ <>[]Resolved

\* 'Tuna Salmon Seared' reaches the bound of 1 + 2 + 3 lookups and ends with
\* None
C21_Witness ==
  /\ Resolved
  /\ recipe = None
  /\ cleaned = TunaSalmonSeared
  /\ Len(queries) = LookupBound(cleaned)
  /\ Len(queries) = 6

----------------------------------------------------------------------------
(* The dish handed to search_recipe_smart and to get_order_links by the    *)
(* page script, checked under RenderSpec.                                  *)

JawsQuery == <<"J","a","w","s">>

\* the elements of the page shown for the current tab
Shown == {rendered[k] : k \in 1..Len(rendered)}

\* C22: in the pass for a movie the page script calls search_recipe_smart,
\* and builds the order links, with dishes['main'] when it is not empty and
\* with movie_query when it is empty; the results are rendered only when
\* movie_query is not empty, so the dish passed is never empty and the
\* warning 'Could not extract dish name' is never shown.
C22_QueryWhenMainEmpty ==
  /\ \A x \in Shown : x.kind # "warning"
  /\ tab > 0 => search_button /\ movie_query # <<>>
  /\ tab > 0 /\ pc \in {"full", "trim", "word", "returned"} =>
       /\ dish_name # <<>>
       /\ dishes.main = <<>> => dish_name = movie_query
       /\ dishes.main # <<>> => dish_name = dishes.main
  /\ \A x \in Shown :
       x.kind = "order" =>
         /\ x.text # <<>>
         /\ dishes.main = <<>> => x.text = movie_query
         /\ dishes.main # <<>> => x.text = dishes.main
         /\ \A u \in 1..Len(get_order_links(x.text)) :
              El("order_link", get_order_links(x.text)[u]) \in Shown
  /\ pc \in {"pairing", "done"} /\ tab > 0 /\ rendered # <<>> =>
       \E x \in Shown : x.kind = "order"

\* the pairing text had no label, the query 'Jaws' was looked up and the
\* order links are built from it
C22_Witness ==
  /\ dishes.main = <<>>
  /\ movie_query = JawsQuery
  /\ \E k \in 1..Len(rendered) : rendered[k] = El("order", JawsQuery)
  /\ \E k \in 1..Len(rendered) : rendered[k].kind \in {"recipe", "info"}

----------------------------------------------------------------------------
(* The genre string of a movie of the movie catalog, checked under         *)
(* RenderSpec.                                                             *)

\* the genre ids the catalog gave for the movie with this title
IdsOf(name) == TmdbGenreIds[CHOOSE i \in 1..Len(TmdbTitles) : TmdbTitles[i] = name]

\* every id is a key of the genre table that was loaded
AllPresent(genre_ids) ==
  \A k \in 1..Len(genre_ids) : py_str(genre_ids[k]) \in DOMAIN genre_map

\* the names of the ids, in their order, separated by ', '
NamesOf(genre_ids) ==
  comma_join([k \in 1..Len(genre_ids) |-> genre_map[py_str(genre_ids[k])]])

\* the movie of the current tab came from the movie catalog, with genre ids
\* that are all in the genre table, and this genre string is shown for it
GenreShown(text) ==
  /\ tab > 0
  /\ movies[tab].source = "TMDB"
  /\ IdsOf(movies[tab].title) # <<>>
  /\ AllPresent(IdsOf(movies[tab].title))
  /\ El("genre", text) \in Shown

\* C23: for a movie of the movie catalog whose genre ids are all keys of
\* the loaded genre table, the genre shown is the names of those ids joined
\* by ', ', and 'Unknown' is no part of it, in cloud_app.py and in main.py.
C23_GenreNames ==
  \A i \in 1..Len(movies) :
    movies[i].source = "TMDB" /\ AllPresent(IdsOf(movies[i].title)) =>
      /\ movies[i].genre = NamesOf(IdsOf(movies[i].title))
      /\ ~contains(movies[i].genre, Unknown)
      /\ i = tab /\ pc \in {"recipe_tab", "order_tab"} =>
           El("genre", movies[i].genre) \in Shown

\* cloud_app.py alone does show the names
CloudGenreNames == variant = "cloud_app" => C23_GenreNames

\* main.py shows 'Unknown' once for every genre id
MainGenreUnknown ==
  variant = "main" =>
    \A i \in 1..Len(movies) :
      movies[i].source = "TMDB" /\ IdsOf(movies[i].title) # <<>> =>
        movies[i].genre =
          comma_join([k \in 1..Len(IdsOf(movies[i].title)) |-> Unknown])

\* cloud_app.py shows 'Animation, Horror' for 'Up'
CloudShowsNames ==
  /\ variant = "cloud_app"
  /\ GenreShown(<<"A","n","i","m","a","t","i","o","n",","," ","H","o","r","r","o","r">>)

\* main.py shows 'Unknown, Unknown' for it
MainShowsUnknown ==
  /\ variant = "main"
  /\ GenreShown(<<"U","n","k","n","o","w","n",","," ","U","n","k","n","o","w","n">>)

----------------------------------------------------------------------------
(* Repeated and empty queries of search_recipe_smart, checked under Spec.  *)

\* the number of lookups made so far with the query string q
Lookups(q) == Cardinality({k \in 1..Len(queries) : queries[k].q = q})

\* C24, as stated: no two lookups of a resolution have the same query
\* string.
C24_NoRepeatedQuery ==
  \A j, k \in 1..Len(queries) : j < k => queries[j].q # queries[k].q

\* C24, amended: no lookup is retried: the lookups of the full-name and
\* left-trim steps have pairwise different query strings, and a string is
\* looked up a second time only in the per-word step, when it is a word
\* longer than 3 that is also the one-word name or the last left-trimmed
\* suffix, or that occurs more than once in the name; a string is looked up
\* at most once as name or suffix plus once for each time it occurs as a
\* word.
C24_NoRetry ==
  LET ws == split_words(cleaned)
      n  == Len(ws)
  IN  /\ \A j, k \in 1..Len(queries) :
           j < k /\ queries[j].q = queries[k].q =>
             /\ queries[k].step = "word"
             /\ Len(queries[k].q) > 3
             /\ \/ queries[j].step \in {"full", "trim"} /\ queries[j].q = ws[n]
                \/ queries[j].step = "word" /\ Count(ws, queries[k].q) > 1
      /\ \A k \in 1..Len(queries) :
           Lookups(queries[k].q)
             <= Count(ws, queries[k].q)
                  + (IF \/ queries[k].q = cleaned
                        \/ \E i \in 1..(n - 1) : queries[k].q = Suffix(ws, i)
                       THEN 1 ELSE 0)

\* the one-word name 'Salmon' is looked up as the full name and again as a
\* word
C24_Witness ==
  /\ pc = "returned"
  /\ cleaned = Salmon
  /\ [k \in 1..Len(queries) |-> queries[k].q] = <<Salmon, Salmon>>
  /\ queries[1].step = "full"
  /\ queries[2].step = "word"

\* C25: search_recipe is never called with the empty string: when
\* clean_dish_name leaves nothing of the dish name, no lookup is made and
\* the result is None.
C25_NoEmptyQuery ==
  /\ \A k \in 1..Len(queries) : queries[k].q # <<>>
  /\ pc # "full" /\ cleaned = <<>> => queries = <<>> /\ recipe = None

\* the empty string is looked up exactly when the normalized name is empty,
\* and then it is the only lookup; what the catalog answers is returned
EmptyQueryOnlyForEmptyName ==
  /\ \A k \in 1..Len(queries) :
       queries[k].q = <<>> => k = 1 /\ queries[k].step = "full" /\ cleaned = <<>>
  /\ pc # "full" /\ cleaned = <<>> =>
       /\ pc = "returned"
       /\ Len(queries) = 1
       /\ queries[1].q = <<>>
       /\ recipe = queries[1].result

----------------------------------------------------------------------------
(* The copies of the core in main.py: clean_dish_name, extract_dish_name   *)
(* and search_recipe_smart, and search_recipe_smart of cloud_app.py as a   *)
(* function of the dish name and of a stub of search_recipe.               *)

\* a denylist that lost its last entry
flair_words_Shorter == SubSeq(flair_words, 1, Len(flair_words) - 1)

\* flair_words of main.py
flair_words_main ==
  << <<"s","e","d","u","c","t","i","o","n">>,
     <<"r","o","m","a","n","t","i","c">>,
     <<"p","a","s","s","i","o","n","a","t","e">>,
     <<"c","o","z","y">>,
     <<"s","p","o","o","k","y">>,
     <<"d","r","e","a","m","y">>,
     <<"m","a","g","i","c","a","l">>,
     <<"e","n","c","h","a","n","t","e","d">>,
     <<"u","l","t","i","m","a","t","e">>,
     <<"p","e","r","f","e","c","t">>,
     <<"d","a","t","e"," ","n","i","g","h","t">>,
     <<"l","o","v","e">>,
     <<"s","p","e","c","i","a","l">>,
     <<"d","e","l","i","c","i","o","u","s">>,
     <<"h","o","m","e","m","a","d","e">>,
     <<"g","o","u","r","m","e","t">>,
     <<"c","l","a","s","s","i","c">>,
     <<"a","u","t","h","e","n","t","i","c">>,
     <<"t","r","a","d","i","t","i","o","n","a","l">>,
     <<"f","a","m","o","u","s">>,
     <<"e","p","i","c">>,
     <<"h","e","a","v","e","n","l","y">>,
     <<"d","i","v","i","n","e">>,
     <<"s","i","n","f","u","l">>,
     <<"d","e","c","a","d","e","n","t">>,
     <<"l","u","s","t","y">>,
     <<"f","i","e","r","y">>,
     <<"s","i","z","z","l","i","n","g">>,
     <<"s","t","e","a","m","y">>,
     <<"m","i","d","n","i","g","h","t">>,
     <<"m","o","o","n","l","i","t">>,
     <<"c","a","n","d","l","e","l","i","t">>,
     <<"s","u","l","t","r","y">>,
     <<"s","e","n","s","u","a","l">>,
     <<"f","o","r","b","i","d","d","e","n">>,
     <<"i","r","r","e","s","i","s","t","i","b","l","e">>,
     <<"t","e","m","p","t","i","n","g">>,
     <<"i","n","d","u","l","g","e","n","t">>,
     <<"l","u","x","u","r","i","o","u","s">> >>

\* w.lower().strip() not in flair_words
not_flair_main(w) ==
  \A n \in 1..Len(flair_words_main) : strip(lower(w)) # flair_words_main[n]

\* clean_dish_name of main.py
clean_dish_name_main(name) ==
  LET no_emoji      == sub_nonword(name)
      ws            == split_words(no_emoji)
      cleaned_words == SelectSeq(ws, not_flair_main)
      joined        == strip(join(cleaned_words))
  IN  strip(sub_spaces(joined))

\* response.replace("MAIN_DISH:", "MAIN DISH:") of main.py
normalize_main(r) ==
  str_replace(r, <<"M","A","I","N","_","D","I","S","H",":">>, <<"M","A","I","N"," ","D","I","S","H",":">>)

\* the three re.search calls of main.py and the assignments after them
primary_pass_main(r) ==
  LET normalized  == normalize_main(r)
      main_match  == re_search(normalized, <<"M","A","I","N"," ","D","I","S","H",":">>,
                               <<<<"D","R","I","N","K",":">>, <<"S","N","A","C","K",":">>>>)
      drink_match == re_search(normalized, <<"D","R","I","N","K",":">>,
                               <<<<"S","N","A","C","K",":">>, <<"M","A","I","N"," ","D","I","S","H",":">>>>)
      snack_match == re_search(normalized, <<"S","N","A","C","K",":">>,
                               <<<<"M","A","I","N"," ","D","I","S","H",":">>, <<"D","R","I","N","K",":">>>>)
      m1 == IF main_match.found THEN strip(main_match.group) ELSE <<>>
      d1 == IF drink_match.found THEN strip(drink_match.group) ELSE <<>>
      s1 == IF snack_match.found THEN strip(snack_match.group) ELSE <<>>
  IN  [main |-> m1, drink |-> d1, snack |-> s1]

\* the list of `for sep in [...]` of main.py, the same in its three branches
separators_main ==
  << <<" ","-"," ">>,
     <<" ","ndash"," ">>,
     <<"."," ">>,
     <<","," ","a"," ">>,
     <<","," ","t","h","i","s"," ">>,
     <<","," ","a","n"," ">> >>

\* raw = line.split(":")[-1].strip().strip("*").strip(), then the for loop
\* over the separators with its break
RECURSIVE cut_at_sep_main(_, _)
cut_at_sep_main(raw, n) ==
  IF n > Len(separators_main) THEN raw
  ELSE IF contains(raw, separators_main[n])
    THEN strip(split_first(raw, separators_main[n]))
  ELSE cut_at_sep_main(raw, n + 1)

raw_of_line_main(line) ==
  cut_at_sep_main(strip(strip_char(strip(split_last(line, <<":">>)), "*")), 1)

\* `for line in response.split("\n")` of main.py, over the lines left
RECURSIVE scan_lines_main(_, _)
scan_lines_main(d, lines) ==
  IF lines = <<>> THEN d
  ELSE LET line == strip(Head(lines))
           has_colon == contains(line, <<":">>)
           d2 == IF contains(line, <<"M","a","i","n"," ","D","i","s","h">>) /\ has_colon
                   THEN [d EXCEPT !.main = raw_of_line_main(line)]
                 ELSE IF contains(line, <<"D","r","i","n","k">>) /\ has_colon /\ d.drink = <<>>
                   THEN [d EXCEPT !.drink = raw_of_line_main(line)]
                 ELSE IF contains(line, <<"S","n","a","c","k">>) /\ has_colon /\ d.snack = <<>>
                   THEN [d EXCEPT !.snack = raw_of_line_main(line)]
                 ELSE d
       IN  scan_lines_main(d2, Tail(lines))

\* `for key in dishes: if dishes[key]: ...` of main.py
clean_fields_main(d) ==
  [k \in DOMAIN d |->
     IF d[k] # <<>>
       THEN strip(sub_spaces(strip(sub_nonword(d[k]))))
       ELSE d[k]]

\* extract_dish_name of main.py
extract_dish_name_main(r) ==
  LET d1 == primary_pass_main(r)
      d2 == IF d1.main = <<>>
              THEN scan_lines_main(d1, split(r, <<"\n">>))
              ELSE d1
  IN  clean_fields_main(d2)

\* the greatest number of calls of search_recipe in one resolution
MaxCalls == 2 * MaxWords

\* a stub of search_recipe is the set of its calls, counted from 1, that it
\* answers with a record; search_recipe_smart returns at the first of them
Stubs == {{}} \cup {{h} : h \in 1..MaxCalls}

\* what the stub answers to its k-th call, made with q
Answer(stub, k, q) == search_recipe(q, IF k \in stub THEN "meal" ELSE "no_meals")

\* the calls made and the value returned
Run(calls, r) == [calls |-> calls, recipe |-> r]

\* `while len(words) > 1` of cloud_app.py
RECURSIVE trim_loop(_, _, _)
trim_loop(ws, calls, stub) ==
  IF Len(ws) > 1
    THEN LET rest == Tail(ws)
             r    == Answer(stub, Len(calls) + 1, join(rest))
             made == Append(calls, Call(join(rest), "trim", r))
         IN  IF Truthy(r) THEN Run(made, r) ELSE trim_loop(rest, made, stub)
    ELSE Run(calls, None)

\* `for word in words` of cloud_app.py
RECURSIVE word_loop(_, _, _)
word_loop(ws, calls, stub) ==
  IF ws = <<>> THEN Run(calls, None)
  ELSE IF Len(Head(ws)) > 3
    THEN LET r    == Answer(stub, Len(calls) + 1, Head(ws))
             made == Append(calls, Call(Head(ws), "word", r))
         IN  IF Truthy(r) THEN Run(made, r) ELSE word_loop(Tail(ws), made, stub)
  ELSE word_loop(Tail(ws), calls, stub)

\* search_recipe_smart of cloud_app.py
search_recipe_smart(name, stub) ==
  LET c     == clean_dish_name(name)
      r     == Answer(stub, 1, c)
      first == <<Call(c, "full", r)>>
      trim  == trim_loop(split_words(c), first, stub)
  IN  IF Truthy(r) THEN Run(first, r)
      ELSE IF Truthy(trim.recipe) THEN trim
      ELSE word_loop(sort_by_len(split_words(c)), trim.calls, stub)

\* `while len(words) > 1` of main.py
RECURSIVE trim_loop_main(_, _, _)
trim_loop_main(ws, calls, stub) ==
  IF Len(ws) > 1
    THEN LET popped  == Tail(ws)
             attempt == join(popped)
             r       == Answer(stub, Len(calls) + 1, attempt)
             made    == Append(calls, Call(attempt, "trim", r))
         IN  IF Truthy(r) THEN Run(made, r)
             ELSE trim_loop_main(popped, made, stub)
    ELSE Run(calls, None)

\* `for word in words` of main.py
RECURSIVE word_loop_main(_, _, _)
word_loop_main(ws, calls, stub) ==
  IF ws = <<>> THEN Run(calls, None)
  ELSE LET word == Head(ws)
       IN  IF Len(word) > 3
             THEN LET r    == Answer(stub, Len(calls) + 1, word)
                      made == Append(calls, Call(word, "word", r))
                  IN  IF Truthy(r) THEN Run(made, r)
                      ELSE word_loop_main(Tail(ws), made, stub)
             ELSE word_loop_main(Tail(ws), calls, stub)

\* search_recipe_smart of main.py
search_recipe_smart_main(name, stub) ==
  LET c      == clean_dish_name_main(name)
      r      == Answer(stub, 1, c)
      step1  == <<Call(c, "full", r)>>
      step2  == trim_loop_main(split_words(c), step1, stub)
      sorted == sort_by_len(split_words(c))
  IN  IF Truthy(r) THEN Run(step1, r)
      ELSE IF Truthy(step2.recipe) THEN step2
      ELSE word_loop_main(sorted, step2.calls, stub)

\* the stub that answered as the calls made so far were answered
StubOf(calls) == {k \in 1..Len(calls) : calls[k].result # None}

\* the calls of FullLookup, TrimLookup and WordLookup are those of
\* search_recipe_smart as a function, under Spec
StepsAreTheFunction ==
  pc = "returned" =>
    search_recipe_smart(dish_name, StubOf(queries)) = Run(queries, recipe)

\* the responses given to extract_dish_name of main.py
VariantResponses ==
  LabelledResponses \cup MarkdownResponses
    \cup { concat(ss, <<"\n">>) : ss \in SeqsUpTo(Segments, MaxSegs - 1) }
    \cup { concat(ss, <<" ">>) : ss \in SeqsUpTo(Segments, MaxSegs - 1) }

\* the names given to clean_dish_name of main.py: those of CleanSpec and of
\* Spec, and every entry of the denylist of main.py
VariantNames ==
  CleanNames \cup DishNames
    \cup UNION { { e, upper(e), title(e), e \o <<" ">> \o Stew } :
                   e \in { flair_words_main[n] : n \in 1..Len(flair_words_main) } }

\* the words of the dish names given to search_recipe_smart of main.py: a
\* denylist entry, a word of 3 letters, one of 4, two of equal length
VariantWords ==
  { <<"R","o","m","a","n","t","i","c">>, <<"R","e","d">>, <<"T","u","n","a">>,
    <<"S","a","l","m","o","n">>, <<"S","e","a","r","e","d">> }

VariantDishNames == { join(ws) : ws \in SeqsUpTo(VariantWords, MaxWords) }

VariantInit ==
  /\ \/ /\ pc = "extract_dish_name"
        /\ response \in VariantResponses
        /\ dish_name = <<>>
        /\ outcome = NoCall
     \/ /\ pc = "clean_dish_name"
        /\ response = <<>>
        /\ dish_name \in VariantNames
        /\ outcome = NoCall
     \/ /\ pc = "search_recipe_smart"
        /\ response = <<>>
        /\ dish_name \in VariantDishNames
        /\ outcome \in {[site |-> "stub", kind |-> "meal", hits |-> stub] : stub \in Stubs}
  /\ dishes = EmptyDishes
  /\ cleaned = <<>>
  /\ words = <<>>
  /\ queries = <<>>
  /\ recipe = None
  /\ PageIdle

\* dishes = extract_dish_name(response), in main.py
ExtractMain ==
  /\ pc = "extract_dish_name"
  /\ dishes' = extract_dish_name_main(response)
  /\ pc' = "extracted"
  /\ UNCHANGED <<response, dish_name, cleaned, words, queries, recipe, outcome, page>>

\* clean_dish_name(dish_name), in main.py
CleanMain ==
  /\ pc = "clean_dish_name"
  /\ cleaned' = clean_dish_name_main(dish_name)
  /\ pc' = "cleaned"
  /\ UNCHANGED <<response, dishes, dish_name, words, queries, recipe, outcome, page>>

\* recipe = search_recipe_smart(dish_name), in main.py, with the stub
ResolveMain ==
  /\ pc = "search_recipe_smart"
  /\ LET run == search_recipe_smart_main(dish_name, outcome.hits)
     IN  /\ queries' = run.calls
         /\ recipe' = run.recipe
  /\ cleaned' = clean_dish_name_main(dish_name)
  /\ pc' = "returned"
  /\ UNCHANGED <<response, dishes, dish_name, words, outcome, page>>

VariantNext == ExtractMain \/ CleanMain \/ ResolveMain

VariantSpec == VariantInit /\ [][VariantNext]_vars

\* C26: main.py and cloud_app.py have the same core: extract_dish_name of
\* main.py returns what extract_dish_name of cloud_app.py returns for the
\* same response, clean_dish_name of main.py what clean_dish_name of
\* cloud_app.py returns for the same name, and for every dish name and every
\* stub of search_recipe, search_recipe_smart of main.py makes the same
\* calls in the same order and returns the same value as search_recipe_smart
\* of cloud_app.py.
C26_SameCore ==
  /\ pc = "extracted" => dishes = extract_dish_name(response)
  /\ pc = "cleaned" => cleaned = clean_dish_name(dish_name)
  /\ pc = "returned" =>
       Run(queries, recipe) = search_recipe_smart(dish_name, outcome.hits)

\* 'Romantic Seared Salmon' with a stub that hits at its fourth call: both
\* make the calls 'Seared Salmon', 'Salmon', 'Seared', 'Salmon' and return
\* the record for 'Salmon'
C26_Witness ==
  /\ pc = "returned"
  /\ dish_name = RomanticSearedSalmon
  /\ outcome.site = "stub"
  /\ outcome.hits = {4}
  /\ [k \in 1..Len(queries) |-> queries[k].q]
       = << <<"S","e","a","r","e","d"," ","S","a","l","m","o","n">>, <<"S","a","l","m","o","n">>, <<"S","e","a","r","e","d">>, <<"S","a","l","m","o","n">> >>
  /\ recipe = Meal(<<"S","a","l","m","o","n">>)

====
